---- MODULE Spec2Model ----
(***************************************************************************)
(* CyberDirectory: the state machines of its React components.             *)
(*                                                                         *)
(*   ToolsList      (src/src/components/ToolsList.tsx)  filter, sort,      *)
(*                  wishlist toggle, upvote                                *)
(*   ToolCard       (src/src/components/ToolCard.tsx)  wishlist, vote      *)
(*   ReviewSection  (src/src/components/ReviewSection.tsx)                 *)
(*   Comparison     (src/src/pages/Camparison.tsx)                         *)
(*   Collections    (src/src/pages/Camparison.tsx)  create, edit, delete   *)
(*   Roadmap        (src/src/pages/Roadmap.tsx)  generateRoadmap           *)
(*   AuthProvider   (src/src/components/ToolsList.tsx:453)                 *)
(*   AdminRoute     (src/src/components/AdminRoute.tsx)                    *)
(*                                                                         *)
(* A component's useState cells are variables, a handler is one action per *)
(* synchronous segment (click up to the first await, each continuation     *)
(* after an await), a value computed during render is an operator over the *)
(* state.  A handler reads the props and state of the render that created  *)
(* it; what it still needs after an await is carried in its request.       *)
(***************************************************************************)
EXTENDS Integers, Sequences, FiniteSets, TLC

VARIABLES
    \* ---- ToolsList ----
    tools,             \* useState<Tool[]>            ToolsList.tsx:22
    wishlistedTools,   \* useState<string[]>          ToolsList.tsx:23
    votedTools,        \* useState<string[]>          ToolsList.tsx:24
    tlLoading,         \* loading, useState(true)     ToolsList.tsx:25
    tlError,           \* error, useState(null)       ToolsList.tsx:26
    searchQuery,       \* prop                        ToolsList.tsx:12
    selectedCategory,  \* prop                        ToolsList.tsx:13
    selectedType,      \* prop                        ToolsList.tsx:14
    sortBy,            \* prop                        ToolsList.tsx:15
    tlUser,            \* useAuth().user              ToolsList.tsx:20
    tlPending,         \* the calls of ToolsList awaiting the backend
    tlTrip,            \* how far a wishlist round trip has come (observer)
    tlLast,            \* the last handler segment that ran, and what it saw
    tlVotesLoaded,     \* the vote counts the last load delivered
    dbWishlist,        \* backend: wishlist membership (user, tool)
    dbVotes,           \* backend: vote membership (user, tool)
    dbVoteCount,       \* backend: stored vote counter per tool
    \* ---- ReviewSection (one tool's page) ----
    reviews,           \* useState<any[]>([])         ReviewSection.tsx:17
    newReview,         \* useState("")                ReviewSection.tsx:18
    rating,            \* useState(0)                 ReviewSection.tsx:19
    isSubmitting,      \* useState(false)             ReviewSection.tsx:21
    rsLoading,         \* loading, useState(true)     ReviewSection.tsx:22
    editingReviewId,   \* useState<string | null>     ReviewSection.tsx:23
    currentUserReview, \* useState<any | null>        ReviewSection.tsx:24
    rsUser,            \* useAuth().user              ReviewSection.tsx:27
    rsPending,         \* the calls of ReviewSection awaiting the backend
    rsLast,            \* the handler segment of ReviewSection that ran last
    dbReviews,         \* backend: the reviews rows of this tool
    dbNextReviewId,    \* backend: the identifier the next insert gets
    \* ---- Comparison ----
    searchParams,      \* useSearchParams(): the "tools" parameter   Camparison.tsx:31
    allTools,          \* useState<Tool[]>([])        Camparison.tsx:34
    selectedTools,     \* useState<Tool[]>([])        Camparison.tsx:35
    searchTerm,        \* useState("")                Camparison.tsx:36
    isAddDialogOpen,   \* useState(false)             Camparison.tsx:37
    cmpLoading,        \* loading, useState(true)     Camparison.tsx:39
    cmpError,          \* error, useState(null)       Camparison.tsx:40
    cmpLast,           \* the handler of Comparison that ran last
    \* ---- ToolCard ----
    isWishlistLoading, \* useState(false)             ToolCard.tsx:28
    isVoting,          \* useState(false)             ToolCard.tsx:29
    tcIsWishlisted,    \* prop isWishlisted           ToolCard.tsx:24
    tcUser,            \* useAuth().user              ToolCard.tsx:30
    tcPending,         \* the calls of ToolCard awaiting the backend
    tcLast,            \* the handler segment of ToolCard that ran last
    \* ---- Collections ----
    collections,       \* useState<Collection[]>([]) Camparison.tsx:475
    colAllTools,       \* allTools, useState<Tool[]> Camparison.tsx:476
    isCreateOpen,      \* useState(false)            Camparison.tsx:477
    colSelectedTools,  \* selectedTools, useState<string[]>  Camparison.tsx:478
    toolSearchQuery,   \* useState("")               Camparison.tsx:479
    formData,          \* useState({name, description, is_public})  Camparison.tsx:480
    colUser,           \* useAuth().user             Camparison.tsx:492
    colPending,        \* the calls of Collections awaiting the backend
    colLast,           \* the handler segment of Collections that ran last
    dbCollections,     \* backend: the collections rows
    dbNextCollectionId, \* backend: the identifier the next insert gets
    deleteCollectionId, \* useState<string | null>(null)  Camparison.tsx:487
    editCollectionId,  \* useState<string | null>(null)  Camparison.tsx:488
    isEditOpen,        \* useState(false)           Camparison.tsx:489
    \* ---- Roadmap ----
    role,              \* useState("")               Roadmap.tsx:32
    experience,        \* useState("")               Roadmap.tsx:33
    hoursPerWeek,      \* useState("")               Roadmap.tsx:34
    roadmap,           \* useState<RoadmapStage[]>([])  Roadmap.tsx:36
    toolsTable,        \* useState<Record<string, string>>({})  Roadmap.tsx:37
    rmPending,         \* the calls of Roadmap awaiting an answer
    rmLast,            \* the segment of Roadmap that ran last, and what it read
    \* ---- AuthProvider ----
    authUser,          \* user, useState<User | null>(null)     ToolsList.tsx:454
    authRole,          \* role, useState<string | null>(null)   ToolsList.tsx:455
    authLoading,       \* loading, useState(true)               ToolsList.tsx:456
    authPending,       \* the runs of fetchUserAndProfile in flight
    authSession,       \* backend: the user of the session getSession returns
    dbProfileRole      \* backend: profiles.role of each user

toolsListVars == <<tools, wishlistedTools, votedTools, tlLoading, tlError,
                   searchQuery, selectedCategory, selectedType, sortBy,
                   tlUser, tlPending, tlLast, tlVotesLoaded, tlTrip,
                   dbWishlist, dbVotes, dbVoteCount>>

reviewVars == <<reviews, newReview, rating, isSubmitting, rsLoading,
                editingReviewId, currentUserReview, rsUser, rsPending, rsLast,
                dbReviews, dbNextReviewId>>

comparisonVars == <<searchParams, allTools, selectedTools, searchTerm,
                    isAddDialogOpen, cmpLoading, cmpError, cmpLast>>

cardVars == <<isWishlistLoading, isVoting, tcIsWishlisted, tcUser, tcPending, tcLast>>

\* the cells of the delete and edit dialogs of Collections
editVars == <<deleteCollectionId, editCollectionId, isEditOpen>>

collectionVars == <<collections, colAllTools, isCreateOpen, colSelectedTools,
                    toolSearchQuery, formData, colUser, colPending, colLast,
                    dbCollections, dbNextCollectionId, editVars>>

\* the pages modelled after the first four components
roadmapVars == <<role, experience, hoursPerWeek, roadmap, toolsTable,
                 rmPending, rmLast>>

authVars == <<authUser, authRole, authLoading, authPending, authSession,
              dbProfileRole>>

pageVars == <<collectionVars, roadmapVars, authVars>>

vars == <<toolsListVars, reviewVars, comparisonVars, cardVars, pageVars>>

\* what an action of one component leaves alone: the other components
exceptToolsList == <<reviewVars, comparisonVars, cardVars, pageVars>>
exceptReview == <<toolsListVars, comparisonVars, cardVars, pageVars>>
exceptComparison == <<toolsListVars, reviewVars, cardVars, pageVars>>
\* a card writes to the data layer, which the model keeps with ToolsList
exceptCard == <<tools, wishlistedTools, votedTools, tlLoading, tlError,
                searchQuery, selectedCategory, selectedType, sortBy,
                tlUser, tlPending, tlLast, tlVotesLoaded, tlTrip,
                reviewVars, comparisonVars, pageVars>>
exceptCollections == <<toolsListVars, reviewVars, comparisonVars, cardVars,
                       roadmapVars, authVars>>
exceptRoadmap == <<toolsListVars, reviewVars, comparisonVars, cardVars,
                   collectionVars, authVars>>
exceptAuth == <<toolsListVars, reviewVars, comparisonVars, cardVars,
                collectionVars, roadmapVars>>

\* null/undefined as a user or a message
NULL == "null"

\* a field that may be missing (null or undefined): None, or Some(value)
None == {}
Some(x) == {x}
Get(o) == CHOOSE x \in o : TRUE

\* ------------------------------------------------------------------------
\* Strings are sequences of one-character strings, so that toLowerCase,
\* includes and replace act on them as they do in the source.

UpperChars == <<"A","B","C","D","E","F","G","H","I","J","K","L","M",
                "N","O","P","Q","R","S","T","U","V","W","X","Y","Z">>
LowerChars == <<"a","b","c","d","e","f","g","h","i","j","k","l","m",
                "n","o","p","q","r","s","t","u","v","w","x","y","z">>

IsWhitespace(c) == c \in {" ", "\t", "\n"}

Alphabet == {UpperChars[i] : i \in 1..Len(UpperChars)}
            \cup {LowerChars[i] : i \in 1..Len(LowerChars)}
            \cup {" ", "\t", "\n", "-"}

LowerOf == [c \in Alphabet |->
              IF \E i \in 1..Len(UpperChars) : UpperChars[i] = c
              THEN LowerChars[CHOOSE i \in 1..Len(UpperChars) : UpperChars[i] = c]
              ELSE c]

LowerChar(c) == LowerOf[c]

\* String.prototype.toLowerCase
ToLowerCase(s) == [i \in 1..Len(s) |-> LowerChar(s[i])]

\* String.prototype.includes
Includes(s, q) ==
    \E i \in 0..(Len(s) - Len(q)) : SubSeq(s, i + 1, i + Len(q)) = q

\* String.prototype.replace(/\s+/g, '-')
RECURSIVE ReplaceWhitespaceRuns(_)
ReplaceWhitespaceRuns(s) ==
    IF s = <<>> THEN <<>>
    ELSE IF IsWhitespace(Head(s))
         THEN IF Len(s) > 1 /\ IsWhitespace(s[2])
              THEN ReplaceWhitespaceRuns(Tail(s))
              ELSE <<"-">> \o ReplaceWhitespaceRuns(Tail(s))
         ELSE <<Head(s)>> \o ReplaceWhitespaceRuns(Tail(s))

\* ------------------------------------------------------------------------
\* ToolsList: the derived list (computed on every render)

searchTools(query) ==
    SelectSeq(tools, LAMBDA tool :
        \/ Includes(ToLowerCase(tool.name), ToLowerCase(query))
        \/ Includes(ToLowerCase(tool.description), ToLowerCase(query))
        \/ /\ tool.tags # None
           /\ \E k \in 1..Len(Get(tool.tags)) :
                  Includes(ToLowerCase(Get(tool.tags)[k]), ToLowerCase(query)))

normalizeFilterValue(value) == ReplaceWhitespaceRuns(ToLowerCase(value))

\* a string in a boolean position: null, undefined and "" are falsy
Truthy(s) == s # None /\ s # Some(<<>>)

afterSearch == IF searchQuery # <<>> THEN searchTools(searchQuery) ELSE tools

afterCategory ==
    IF selectedCategory # <<"a","l","l">>
    THEN SelectSeq(afterSearch, LAMBDA tool :
            Truthy(tool.category)
            /\ normalizeFilterValue(Get(tool.category)) = selectedCategory)
    ELSE afterSearch

filteredTools ==
    IF selectedType # <<"a","l","l">>
    THEN SelectSeq(afterCategory, LAMBDA tool :
            IF ~Truthy(tool.type) THEN FALSE
            ELSE normalizeFilterValue(Get(tool.type)) = selectedType)
    ELSE afterCategory

\* a.name.localeCompare(b.name): letters compare without case first, a
\* lower-case letter before its upper-case form on a tie
RankOf == [c \in Alphabet |->
             IF \E i \in 1..Len(LowerChars) : LowerChars[i] = LowerOf[c]
             THEN CHOOSE i \in 1..Len(LowerChars) : LowerChars[i] = LowerOf[c]
             ELSE 0]

CharRank(c) == RankOf[c]

RECURSIVE LexCompare(_, _)
LexCompare(a, b) ==
    IF a = <<>> /\ b = <<>> THEN 0
    ELSE IF a = <<>> THEN -1
    ELSE IF b = <<>> THEN 1
    ELSE IF Head(a) < Head(b) THEN -1
    ELSE IF Head(a) > Head(b) THEN 1
    ELSE LexCompare(Tail(a), Tail(b))

localeCompare(a, b) ==
    LET primary == LexCompare([i \in 1..Len(a) |-> CharRank(a[i])],
                              [i \in 1..Len(b) |-> CharRank(b[i])])
        caseOf(s) == [i \in 1..Len(s) |-> IF LowerChar(s[i]) = s[i] THEN 0 ELSE 1]
    IN  IF primary # 0 THEN primary ELSE LexCompare(caseOf(a), caseOf(b))

\* (x || 0) on a number that may be missing
OrZero(x) == IF x = None THEN 0 ELSE Get(x)

\* new Date(x || 0).getTime(), timestamps in whole time units since the epoch
DateTime(x) == OrZero(x)

\* mutants of the comparator: ascending instead of descending; never 0
CompareToolsAscending(a, b, key) ==
    CASE key = "name"        -> localeCompare(a.name, b.name)
      [] key = "trust-score" -> OrZero(a.trust_score) - OrZero(b.trust_score)
      [] key = "popularity"  -> OrZero(a.votes) - OrZero(b.votes)
      [] key = "recent"      -> DateTime(a.last_updated) - DateTime(b.last_updated)
      [] OTHER               -> 0

CompareToolsNoTie(a, b, key) ==
    CASE key = "name"        -> localeCompare(a.name, b.name)
      [] key = "trust-score" ->
            IF OrZero(b.trust_score) >= OrZero(a.trust_score) THEN 1 ELSE -1
      [] key = "popularity"  -> OrZero(b.votes) - OrZero(a.votes)
      [] key = "recent"      -> DateTime(b.last_updated) - DateTime(a.last_updated)
      [] OTHER               -> 0

\* the comparator handed to sort
CompareTools(a, b, key) ==
    CASE key = "name"        -> localeCompare(a.name, b.name)
      [] key = "trust-score" -> OrZero(b.trust_score) - OrZero(a.trust_score)
      [] key = "popularity"  -> OrZero(b.votes) - OrZero(a.votes)
      [] key = "recent"      -> DateTime(b.last_updated) - DateTime(a.last_updated)
      [] OTHER               -> 0

\* Array.prototype.sort (ECMAScript 2019: a stable sort): x, which followed
\* every element of sorted in the input, goes before the first element the
\* comparator puts after it
InsertSorted(x, sorted, key) ==
    LET later == {p \in 1..Len(sorted) : CompareTools(sorted[p], x, key) > 0}
        at    == IF later = {} THEN Len(sorted) + 1
                 ELSE CHOOSE p \in later : \A q \in later : p <= q
    IN  SubSeq(sorted, 1, at - 1) \o <<x>> \o SubSeq(sorted, at, Len(sorted))

RECURSIVE ArraySort(_, _)
ArraySort(s, key) ==
    IF s = <<>> THEN <<>>
    ELSE InsertSorted(s[Len(s)], ArraySort(SubSeq(s, 1, Len(s) - 1), key), key)

sortedTools == ArraySort(filteredTools, sortBy)

\* ------------------------------------------------------------------------
\* The rows of the tools table the checks draw from

MaxTools == 3

AllFilter == <<"a","l","l">>

ToolRows == {
    [id |-> 1, name |-> <<"N","m","a","p">>,
     description |-> <<"P","o","r","t"," ","s","c","a","n">>,
     tags |-> Some(<< <<"n","e","t">> >>),
     category |-> Some(<<"W","e","b"," ","S","e","c">>), type |-> Some(<<"F","r","e","e">>),
     trust_score |-> Some(2), votes |-> Some(1), last_updated |-> Some(2)],
    [id |-> 2, name |-> <<"z","a","p">>,
     description |-> <<"W","e","b"," ","p","r","o","x","y">>,
     tags |-> None,
     category |-> Some(<<"w","e","b"," "," ","s","e","c">>),
     type |-> Some(<<"O","p","e","n"," ","S","o","u","r","c","e">>),
     trust_score |-> Some(2), votes |-> None, last_updated |-> None],
    [id |-> 3, name |-> <<"B","u","r","p">>,
     description |-> <<"p","r","o","x","y">>,
     tags |-> Some(<< <<"W","E","B">>, <<"p","r","o">> >>),
     category |-> Some(<<"w","e","b","-","s","e","c">>),
     type |-> Some(<<"o","p","e","n","-","s","o","u","r","c","e">>),
     trust_score |-> None, votes |-> Some(0), last_updated |-> Some(1)],
    [id |-> 4, name |-> <<"n","m">>,
     description |-> <<"s","c","a","n">>,
     tags |-> Some(<< >>),
     category |-> None, type |-> None,
     trust_score |-> Some(0), votes |-> Some(1), last_updated |-> Some(2)],
    [id |-> 5, name |-> <<"H","y","d","r","a">>,
     description |-> <<"B","r","u","t","e">>,
     tags |-> Some(<< <<"w","e","b">> >>),
     category |-> Some(<<"F","o","r","e","n","s","i","c","s">>),
     type |-> Some(<<"f","r","e","e">>),
     trust_score |-> Some(1), votes |-> Some(2), last_updated |-> Some(1)],
    [id |-> 6, name |-> <<"h","a","s","h">>,
     description |-> <<"C","r","a","c","k">>,
     tags |-> None,
     category |-> Some(<<"f","o","r","e","n","s","i","c","s">>),
     type |-> Some(<<"P","a","i","d">>),
     trust_score |-> Some(-1), votes |-> None, last_updated |-> None] }

\* the lists of at most n rows, no row twice (id is the primary key)
ToolLists(n) ==
    {s \in UNION {[1..k -> ToolRows] : k \in 0..n} :
        \A i, j \in 1..Len(s) : i # j => s[i].id # s[j].id}

SearchQueries == { <<>>, <<"W","E","B">>, <<"p","r","o">>, <<"s","c","a","n">> }

CategoryFilters == { AllFilter, <<"w","e","b","-","s","e","c">>,
                     <<"W","e","b"," ","S","e","c">> }

TypeFilters == { AllFilter, <<"o","p","e","n","-","s","o","u","r","c","e">>,
                 <<"F","r","e","e">> }

SortKeys == {"name", "trust-score", "popularity", "recent", "rating"}

IdsOf(s) == {s[i].id : i \in 1..Len(s)}

\* ------------------------------------------------------------------------
\* The data layer of ToolsList (@/data/tools) and the rows behind it

Users == {"u1", "u2"}

\* the users the session of the list goes through
ListUsers == {"u1"}

NumCatalogTools == 2
MaxPending == 2

\* the tools table: NumCatalogTools rows
CatalogRows == {r \in ToolRows : r.id <= NumCatalogTools}
CatalogIds == {r.id : r \in CatalogRows}

RECURSIVE SeqOfRows(_)
SeqOfRows(S) ==
    IF S = {} THEN <<>>
    ELSE LET r == CHOOSE x \in S : \A y \in S : x.id <= y.id
         IN  <<r>> \o SeqOfRows(S \ {r})

\* fetchTools(): the rows, each with its stored vote counter
CatalogSeq == SeqOfRows(CatalogRows)

fetchTools == [i \in 1..Len(CatalogSeq) |->
                 [CatalogSeq[i] EXCEPT !.votes = dbVoteCount[CatalogSeq[i].id]]]

\* fetchWishlistedTools(userId): the identifiers the user has wishlisted
RECURSIVE SeqOfIds(_)
SeqOfIds(S) ==
    IF S = {} THEN <<>>
    ELSE LET i == CHOOSE x \in S : \A y \in S : x <= y
         IN  <<i>> \o SeqOfIds(S \ {i})

fetchWishlistedTools(userId) ==
    SeqOfIds({t \in CatalogIds : <<userId, t>> \in dbWishlist})

\* toggleWishlist(user, tool, currentlyWishlisted), an accepted write:
\* a delete if currently wishlisted, else an insert
toggleWishlist(user, tool, currentlyWishlisted) ==
    IF currentlyWishlisted THEN dbWishlist \ {<<user, tool>>}
    ELSE dbWishlist \cup {<<user, tool>>}

\* upvoteTool(user, tool), an accepted call: a new membership is recorded and
\* the counter incremented; a repeated one is ignored
upvoteToolVotes(user, tool) == dbVotes \cup {<<user, tool>>}

upvoteToolCount(user, tool) ==
    IF <<user, tool>> \in dbVotes THEN dbVoteCount
    ELSE [dbVoteCount EXCEPT ![tool] = Some(OrZero(@) + 1)]

\* Array.prototype.includes on a list of identifiers
InList(list, x) == \E i \in 1..Len(list) : list[i] = x

RemoveAt(s, i) == SubSeq(s, 1, i - 1) \o SubSeq(s, i + 1, Len(s))

\* the number of calls of the given kinds in flight
CountKind(pending, kinds) ==
    Cardinality({i \in 1..Len(pending) : pending[i].kind \in kinds})

Request(kind, user, tool, isWishlisted) ==
    [kind |-> kind, user |-> user, tool |-> tool, isWishlisted |-> isWishlisted]

\* the handler segment that ran last: its outcome and the toast it raised
Last(op, tool, outcome, notice) ==
    [op |-> op, tool |-> tool, outcome |-> outcome, notice |-> notice]

\* what the list renders: the loading line, the error screen, or the cards
tlScreen == IF tlLoading THEN "loading"
            ELSE IF tlError # NULL THEN "error"
            ELSE "list"

dbVars == <<dbWishlist, dbVotes, dbVoteCount>>

\* The observer of a wishlist round trip: two toggles of one tool, the first
\* clicked with nothing in flight and the tool on no wishlist, each accepted
\* by the backend before the next click.  stage 1: first click, 2: first
\* toggle done, 3: second click, 4: second toggle done; list and rows are
\* wishlistedTools and the membership relation at the first click.
NoTrip == [stage |-> 0, tool |-> 0, list |-> <<>>, rows |-> {}]

TripAtClick(toolId) ==
    IF tlPending = <<>> /\ tlTrip.stage = 2 /\ tlTrip.tool = toolId
    THEN [tlTrip EXCEPT !.stage = 3]
    ELSE IF /\ tlPending = <<>>
            /\ ~InList(wishlistedTools, toolId)
            /\ <<tlUser, toolId>> \notin dbWishlist
    THEN [stage |-> 1, tool |-> toolId, list |-> wishlistedTools, rows |-> dbWishlist]
    ELSE NoTrip

TripAtDone(req, outcome) ==
    IF /\ tlTrip.stage \in {1, 3}
       /\ tlTrip.tool = req.tool
       /\ Len(tlPending) = 1
       /\ outcome = "ok"
    THEN [tlTrip EXCEPT !.stage = @ + 1]
    ELSE NoTrip
propVars == <<searchQuery, selectedCategory, selectedType, sortBy>>

\* ------------------------------------------------------------------------
\* ToolsList: the handlers

\* useEffect(() => { loadData() }, [user]) up to its await; the effect runs
\* at mount and when the session's user changes
loadData(u) ==
    /\ tlLoading' = TRUE
    /\ tlPending' = Append(tlPending, Request("load", u, 0, FALSE))

\* the AuthProvider hands the list another user (sign-in, sign-out, a
\* session change made in another tab)
tlSessionChange(u) ==
    /\ u # tlUser
    /\ Len(tlPending) < MaxPending
    /\ tlUser' = u
    /\ loadData(u)
    /\ tlLast' = Last("sessionChange", 0, "none", NULL)
    /\ tlTrip' = NoTrip
    /\ UNCHANGED <<tools, wishlistedTools, votedTools, tlError, tlVotesLoaded,
                   propVars, dbVars,
                   exceptToolsList>>

\* the mutant of loadDataDone: setLoading(false) after the try block instead
\* of in finally
loadDataDoneNoFinally(i, outcome) ==
    /\ tlPending[i].kind = "load"
    /\ tlPending' = RemoveAt(tlPending, i)
    /\ IF outcome = "ok"
       THEN /\ tools' = fetchTools
            /\ wishlistedTools' =
                   IF tlPending[i].user # NULL
                   THEN fetchWishlistedTools(tlPending[i].user)
                   ELSE <<>>
            /\ tlVotesLoaded' = dbVoteCount
            /\ tlError' = tlError
            /\ tlLoading' = FALSE
       ELSE /\ tlError' = "Failed to load tools"
            /\ UNCHANGED <<tools, wishlistedTools, tlVotesLoaded, tlLoading>>
    /\ tlLast' = Last("loadData", 0, outcome, NULL)
    /\ tlTrip' = NoTrip
    /\ UNCHANGED <<votedTools, tlUser, propVars, dbVars,
                   exceptToolsList>>

\* loadData after Promise.all settles: try / catch / finally
loadDataDone(i, outcome) ==
    /\ tlPending[i].kind = "load"
    /\ tlPending' = RemoveAt(tlPending, i)
    /\ IF outcome = "ok"
       THEN /\ tools' = fetchTools
            /\ wishlistedTools' =
                   IF tlPending[i].user # NULL
                   THEN fetchWishlistedTools(tlPending[i].user)
                   ELSE <<>>
            /\ tlVotesLoaded' = dbVoteCount
            /\ tlError' = tlError
       ELSE /\ tlError' = "Failed to load tools"
            /\ UNCHANGED <<tools, wishlistedTools, tlVotesLoaded>>
    /\ tlLoading' = FALSE
    /\ tlLast' = Last("loadData", 0, outcome, NULL)
    /\ tlTrip' = NoTrip
    /\ UNCHANGED <<votedTools, tlUser, propVars, dbVars,
                   exceptToolsList>>

\* the wishlist button of a card: rendered with the list, disabled={!user}
wishlistButtonEnabled(toolId) ==
    /\ tlScreen = "list"
    /\ toolId \in IdsOf(sortedTools)
    /\ tlUser # NULL

\* the mutant of handleWishlistToggle: the membership is taken as absent
handleWishlistToggleStale(toolId) ==
    /\ wishlistButtonEnabled(toolId)
    /\ Len(tlPending) < MaxPending
    /\ IF tlUser = NULL
       THEN /\ tlLast' = Last("wishlist", toolId, "refused", "Login required")
            /\ tlTrip' = NoTrip
            /\ UNCHANGED tlPending
       ELSE /\ tlPending' = Append(tlPending,
                   Request("wishlist", tlUser, toolId, FALSE))
            /\ tlLast' = Last("wishlistClick", toolId, "none", NULL)
            /\ tlTrip' = TripAtClick(toolId)
    /\ UNCHANGED <<tools, wishlistedTools, votedTools, tlLoading, tlError, tlUser,
                   tlVotesLoaded, propVars, dbVars,
                   exceptToolsList>>

\* handleWishlistToggle up to its await
handleWishlistToggle(toolId) ==
    /\ wishlistButtonEnabled(toolId)
    /\ Len(tlPending) < MaxPending
    /\ IF tlUser = NULL
       THEN /\ tlLast' = Last("wishlist", toolId, "refused", "Login required")
            /\ tlTrip' = NoTrip
            /\ UNCHANGED tlPending
       ELSE /\ tlPending' = Append(tlPending,
                   Request("wishlist", tlUser, toolId, InList(wishlistedTools, toolId)))
            /\ tlLast' = Last("wishlistClick", toolId, "none", NULL)
            /\ tlTrip' = TripAtClick(toolId)
    /\ UNCHANGED <<tools, wishlistedTools, votedTools, tlLoading, tlError, tlUser,
                   tlVotesLoaded, propVars, dbVars,
                   exceptToolsList>>

\* handleWishlistToggle after toggleWishlist settles.  The call's result is
\* not looked at: a failure descriptor it returns goes the way of success,
\* a failure it raises goes to the catch block.
handleWishlistToggleDone(i, outcome) ==
    LET req == tlPending[i] IN
    /\ req.kind = "wishlist"
    /\ tlPending' = RemoveAt(tlPending, i)
    /\ tlTrip' = TripAtDone(req, outcome)
    /\ dbWishlist' = IF outcome = "ok"
                     THEN toggleWishlist(req.user, req.tool, req.isWishlisted)
                     ELSE dbWishlist
    /\ IF outcome = "throw"
       THEN /\ tlError' = "Failed to update wishlist"
            /\ tlLast' = Last("wishlist", req.tool, outcome, NULL)
            /\ UNCHANGED wishlistedTools
       ELSE /\ wishlistedTools' =
                   IF req.isWishlisted
                   THEN SelectSeq(wishlistedTools, LAMBDA id : id # req.tool)
                   ELSE Append(wishlistedTools, req.tool)
            /\ tlLast' = Last("wishlist", req.tool, outcome,
                   IF req.isWishlisted THEN "Removed from wishlist"
                   ELSE "Added to wishlist")
            /\ UNCHANGED tlError
    /\ UNCHANGED <<tools, votedTools, tlLoading, tlUser, tlVotesLoaded, propVars,
                   dbVotes, dbVoteCount,
                   exceptToolsList>>

\* the vote button of a card: disabled={!user || votedTools.includes(tool.id)}
voteButtonEnabled(toolId) ==
    /\ tlScreen = "list"
    /\ toolId \in IdsOf(sortedTools)
    /\ tlUser # NULL
    /\ ~InList(votedTools, toolId)

\* handleUpvote up to its await
handleUpvote(toolId) ==
    /\ voteButtonEnabled(toolId)
    /\ tlTrip' = NoTrip
    /\ Len(tlPending) < MaxPending
    /\ IF tlUser = NULL
       THEN /\ tlLast' = Last("vote", toolId, "refused", "Login required")
            /\ UNCHANGED tlPending
       ELSE /\ tlPending' = Append(tlPending, Request("vote", tlUser, toolId, FALSE))
            /\ tlLast' = Last("voteClick", toolId, "none", NULL)
    /\ UNCHANGED <<tools, wishlistedTools, votedTools, tlLoading, tlError, tlUser,
                   tlVotesLoaded, propVars, dbVars,
                   exceptToolsList>>

\* handleUpvote after upvoteTool settles
handleUpvoteDone(i, outcome) ==
    LET req == tlPending[i] IN
    /\ req.kind = "vote"
    /\ tlPending' = RemoveAt(tlPending, i)
    /\ tlTrip' = NoTrip
    /\ dbVotes' = IF outcome = "ok" THEN upvoteToolVotes(req.user, req.tool)
                  ELSE dbVotes
    /\ dbVoteCount' = IF outcome = "ok" THEN upvoteToolCount(req.user, req.tool)
                      ELSE dbVoteCount
    /\ IF outcome = "ok"
       THEN /\ tools' = [k \in 1..Len(tools) |->
                   IF tools[k].id = req.tool
                   THEN [tools[k] EXCEPT !.votes = Some(OrZero(@) + 1)]
                   ELSE tools[k]]
            /\ votedTools' = Append(votedTools, req.tool)
            /\ tlLast' = Last("vote", req.tool, outcome, "Vote recorded")
       ELSE /\ tlLast' = Last("vote", req.tool, outcome,
                   IF outcome = "error" THEN "Vote failed" ELSE "Error")
            /\ UNCHANGED <<tools, votedTools>>
    /\ UNCHANGED <<wishlistedTools, tlLoading, tlError, tlUser, tlVotesLoaded,
                   propVars, dbWishlist,
                   exceptToolsList>>

\* ------------------------------------------------------------------------
\* ReviewSection

MaxReviewId == 2
\* the calls in flight beside which a delete is still clicked
MaxReviewCalls == 0

StarChoices == {2}
\* what is typed into the textarea (it starts empty)
Comments == { <<" ">>, <<" ","h","i"," ">> }

\* profiles.full_name
FullName(u) == IF u = "u1" THEN Some(<<"A","n","n">>) ELSE Some(<<>>)

\* String.prototype.trim
RECURSIVE TrimStart(_)
TrimStart(s) ==
    IF s # <<>> /\ IsWhitespace(Head(s)) THEN TrimStart(Tail(s)) ELSE s

RECURSIVE TrimEnd(_)
TrimEnd(s) ==
    IF s # <<>> /\ IsWhitespace(s[Len(s)])
    THEN TrimEnd(SubSeq(s, 1, Len(s) - 1)) ELSE s

Trim(s) == TrimEnd(TrimStart(s))

\* .from("reviews").select("*").eq("tool_id", toolId)
\*     .order("created_at", { ascending: false }): the newest row first
RECURSIVE NewestFirst(_)
NewestFirst(S) ==
    IF S = {} THEN <<>>
    ELSE LET r == CHOOSE x \in S : \A y \in S : x.id >= y.id
         IN  <<r>> \o NewestFirst(S \ {r})

\* merged.find((r) => r.user_id === userId): the first match, or None
FindReview(list, userId) ==
    LET hits == {k \in 1..Len(list) : list[k].user_id = userId}
    IN  IF hits = {} THEN None
        ELSE Some(list[CHOOSE k \in hits : \A j \in hits : k <= j])

\* the mutant of MergeNames: the name of a returned profile is shown as it
\* is, an empty one included
MergeNamesNoFallback(reviewsData, profiles) ==
    [k \in 1..Len(reviewsData) |->
        [id |-> reviewsData[k].id, user_id |-> reviewsData[k].user_id,
         rating |-> reviewsData[k].rating, comment |-> reviewsData[k].comment,
         user_name |->
            IF profiles # None
               /\ reviewsData[k].user_id \in Get(profiles)
            THEN Get(FullName(reviewsData[k].user_id))
            ELSE <<"A","n","o","n","y","m","o","u","s">>]]

\* step 3 of fetchReviews: merge the names into the reviews
MergeNames(reviewsData, profiles) ==
    [k \in 1..Len(reviewsData) |->
        [id |-> reviewsData[k].id, user_id |-> reviewsData[k].user_id,
         rating |-> reviewsData[k].rating, comment |-> reviewsData[k].comment,
         user_name |->
            IF profiles # None
               /\ reviewsData[k].user_id \in Get(profiles)
               /\ Truthy(FullName(reviewsData[k].user_id))
            THEN Get(FullName(reviewsData[k].user_id))
            ELSE <<"A","n","o","n","y","m","o","u","s">>]]

\* a call in flight: what it asks of the backend, and what its continuation
\* still reads (the user of the render that started it, the handler waiting)
RsCall(kind, user, owner, id, stars, text, data, keys) ==
    [kind |-> kind, user |-> user, owner |-> owner, id |-> id,
     rating |-> stars, comment |-> text, data |-> data, keys |-> keys]

\* Array.from(new Set(reviewsData.map((r) => r.user_id))): every author once,
\* in the order of the first review of each
RECURSIVE DistinctAuthors(_)
DistinctAuthors(reviewsData) ==
    IF reviewsData = <<>> THEN <<>>
    ELSE LET front == DistinctAuthors(SubSeq(reviewsData, 1, Len(reviewsData) - 1))
             u     == reviewsData[Len(reviewsData)].user_id
         IN  IF InList(front, u) THEN front ELSE Append(front, u)

\* what the section renders
rsFormRendered == ~rsLoading /\ rsUser # NULL
rsListRendered == ~rsLoading

ReplaceAt(s, i, x) == [s EXCEPT ![i] = x]

\* fetchReviews up to its first await, called by the render whose user is u
fetchReviews(u, owner) == RsCall("reviews", u, owner, None, 0, <<>>, <<>>, <<>>)

\* useEffect(..., [currentUserReview]): runs when the cell holds another
\* object than before; a fetched review is a new object every time
formEffectRuns(newCurrent) == newCurrent # None \/ currentUserReview # None

\* the cells after a fetch set currentUserReview and editingReviewId and the
\* effect on currentUserReview has run
afterFetch(newCurrent) ==
    /\ currentUserReview' = newCurrent
    /\ editingReviewId' = IF newCurrent # None THEN Some(Get(newCurrent).id) ELSE None
    /\ rating' = IF newCurrent # None THEN Get(newCurrent).rating
                 ELSE IF formEffectRuns(newCurrent) THEN 0 ELSE rating
    /\ newReview' = IF newCurrent # None THEN Get(newCurrent).comment
                    ELSE IF formEffectRuns(newCurrent) THEN <<>> ELSE newReview

\* the caller of fetchReviews resumes: handleSubmitReview clears isSubmitting
afterFetchReviews(owner) ==
    isSubmitting' = IF owner = "submit" THEN FALSE ELSE isSubmitting

\* fetchReviews after the reviews query settles (steps 1 and 2)
fetchReviewsData(i, outcome) ==
    LET call == rsPending[i] IN
    /\ call.kind = "reviews"
    /\ IF outcome = "error"
       THEN /\ rsPending' = RemoveAt(rsPending, i)
            /\ rsLoading' = FALSE
            /\ afterFetchReviews(call.owner)
            /\ UNCHANGED <<reviews, currentUserReview, editingReviewId, rating,
                           newReview>>
       ELSE IF dbReviews = {}
       THEN /\ rsPending' = RemoveAt(rsPending, i)
            /\ reviews' = <<>>
            /\ afterFetch(None)
            /\ rsLoading' = FALSE
            /\ afterFetchReviews(call.owner)
       ELSE /\ rsPending' = ReplaceAt(rsPending, i,
                   RsCall("profiles", call.user, call.owner, None, 0, <<>>,
                          NewestFirst(dbReviews),
                          DistinctAuthors(NewestFirst(dbReviews))))
            /\ UNCHANGED <<reviews, currentUserReview, editingReviewId, rating,
                           newReview, rsLoading, isSubmitting>>
    /\ rsLast' = IF outcome = "error"
                 THEN Last("fetchReviews", 0, outcome, "Error loading reviews")
                 ELSE Last("render", 0, "none", NULL)
    /\ UNCHANGED <<rsUser, dbReviews, dbNextReviewId, exceptReview>>

\* step 4 of fetchReviews: the review of the user the fetch was started with
existingReview(merged, user) ==
    IF user # NULL
    THEN FindReview(merged, user)
    ELSE None

\* fetchReviews after the profiles query settles (steps 3 and 4): it
\* returns the profiles of the authors, no row (the authors have no
\* profile) or a failure descriptor
fetchReviewsProfiles(i, outcome) ==
    LET call   == rsPending[i]
        merged == MergeNames(call.data,
                      IF outcome = "ok"
                      THEN Some({u \in Users : InList(call.keys, u)})
                      ELSE IF outcome = "empty" THEN Some({})
                      ELSE None)
    IN
    /\ call.kind = "profiles"
    /\ rsPending' = RemoveAt(rsPending, i)
    /\ reviews' = merged
    /\ afterFetch(existingReview(merged, call.user))
    /\ rsLoading' = FALSE
    /\ afterFetchReviews(call.owner)
    /\ rsLast' = Last("render", 0, "none", NULL)
    /\ UNCHANGED <<rsUser, dbReviews, dbNextReviewId,
                   exceptReview>>

\* the AuthProvider hands the section another user; no effect of the section
\* depends on the user, so nothing is fetched again
rsSessionChange(u) ==
    /\ u # rsUser
    /\ rsUser' = u
    /\ rsLast' = Last("render", 0, "none", NULL)
    /\ UNCHANGED <<reviews, newReview, rating, isSubmitting, rsLoading,
                   editingReviewId, currentUserReview, rsPending, dbReviews,
                   dbNextReviewId,
                   exceptReview>>

\* the stars and the textarea of the form
setRating(n) ==
    /\ rsFormRendered
    /\ rating' = n
    /\ rsLast' = Last("render", 0, "none", NULL)
    /\ UNCHANGED <<reviews, newReview, isSubmitting, rsLoading, editingReviewId,
                   currentUserReview, rsUser, rsPending, dbReviews, dbNextReviewId,
                   exceptReview>>

setNewReview(text) ==
    /\ rsFormRendered
    /\ newReview' = text
    /\ rsLast' = Last("render", 0, "none", NULL)
    /\ UNCHANGED <<reviews, rating, isSubmitting, rsLoading, editingReviewId,
                   currentUserReview, rsUser, rsPending, dbReviews, dbNextReviewId,
                   exceptReview>>

\* the Edit button, shown on the reviews of the current user
editReview(k) ==
    /\ rsListRendered
    /\ rsUser # NULL
    /\ reviews[k].user_id = rsUser
    /\ editingReviewId' = Some(reviews[k].id)
    /\ rating' = reviews[k].rating
    /\ newReview' = reviews[k].comment
    /\ rsLast' = Last("render", 0, "none", NULL)
    /\ UNCHANGED <<reviews, isSubmitting, rsLoading, currentUserReview, rsUser,
                   rsPending, dbReviews, dbNextReviewId,
                   exceptReview>>

\* const reviewId = editingReviewId || currentUserReview?.id
reviewId ==
    IF editingReviewId # None THEN editingReviewId
    ELSE IF currentUserReview # None THEN Some(Get(currentUserReview).id)
    ELSE None

\* the mutant of handleSubmitReview: the comment is neither tested nor
\* written in its trimmed form
handleSubmitReviewUntrimmed ==
    /\ rsFormRendered
    /\ ~isSubmitting
    /\ reviewId # None \/ dbNextReviewId <= MaxReviewId
    /\ IF rsUser = NULL
       THEN /\ rsLast' = Last("submit", 0, "refused", "Login required")
            /\ UNCHANGED <<isSubmitting, rsPending>>
       ELSE IF rating = 0 \/ newReview = <<>>
       THEN /\ rsLast' = Last("submit", 0, "refused", "Missing information")
            /\ UNCHANGED <<isSubmitting, rsPending>>
       ELSE /\ isSubmitting' = TRUE
            /\ rsLast' = Last("submitClick", 0, "none", NULL)
            /\ rsPending' = Append(rsPending,
                   IF reviewId # None
                   THEN RsCall("update", rsUser, "submit", reviewId, rating,
                               newReview, <<>>, <<>>)
                   ELSE RsCall("insert", rsUser, "submit", None, rating,
                               newReview, <<>>, <<>>))
    /\ UNCHANGED <<reviews, newReview, rating, rsLoading, editingReviewId,
                   currentUserReview, rsUser, dbReviews, dbNextReviewId,
                   exceptReview>>

\* handleSubmitReview up to its await; the button is disabled={isSubmitting}
handleSubmitReview ==
    /\ rsFormRendered
    /\ ~isSubmitting
    /\ reviewId # None \/ dbNextReviewId <= MaxReviewId
    /\ IF rsUser = NULL
       THEN /\ rsLast' = Last("submit", 0, "refused", "Login required")
            /\ UNCHANGED <<isSubmitting, rsPending>>
       ELSE IF rating = 0 \/ Trim(newReview) = <<>>
       THEN /\ rsLast' = Last("submit", 0, "refused", "Missing information")
            /\ UNCHANGED <<isSubmitting, rsPending>>
       ELSE /\ isSubmitting' = TRUE
            /\ rsLast' = Last("submitClick", 0, "none", NULL)
            /\ rsPending' = Append(rsPending,
                   IF reviewId # None
                   THEN RsCall("update", rsUser, "submit", reviewId, rating,
                               Trim(newReview), <<>>, <<>>)
                   ELSE RsCall("insert", rsUser, "submit", None, rating,
                               Trim(newReview), <<>>, <<>>))
    /\ UNCHANGED <<reviews, newReview, rating, rsLoading, editingReviewId,
                   currentUserReview, rsUser, dbReviews, dbNextReviewId,
                   exceptReview>>

\* handleSubmitReview after the write settles: a toast either way, then
\* await fetchReviews() of the render that was clicked
handleSubmitReviewWritten(i, outcome) ==
    LET call == rsPending[i] IN
    /\ call.kind \in {"update", "insert"}
    /\ IF outcome = "ok" /\ call.kind = "update"
       THEN /\ dbReviews' = {IF r.id = Get(call.id)
                             THEN [r EXCEPT !.rating = call.rating,
                                            !.comment = call.comment]
                             ELSE r : r \in dbReviews}
            /\ UNCHANGED dbNextReviewId
       ELSE IF outcome = "ok"
       THEN /\ dbReviews' = dbReviews \cup
                   {[id |-> dbNextReviewId, user_id |-> call.user,
                     rating |-> call.rating, comment |-> call.comment]}
            /\ dbNextReviewId' = dbNextReviewId + 1
       ELSE UNCHANGED <<dbReviews, dbNextReviewId>>
    /\ rsLoading' = TRUE
    /\ rsPending' = ReplaceAt(rsPending, i, fetchReviews(call.user, "submit"))
    /\ rsLast' = Last("submit", 0, outcome,
           IF outcome = "ok"
           THEN IF call.kind = "update" THEN "Review updated!" ELSE "Review submitted!"
           ELSE IF call.kind = "update" THEN "Error updating review"
                ELSE "Error submitting review")
    /\ UNCHANGED <<reviews, newReview, rating, isSubmitting, editingReviewId,
                   currentUserReview, rsUser,
                   exceptReview>>

\* the mutant of handleDeleteReview: the author of the target is not compared
handleDeleteReviewAnyAuthor(id) ==
    /\ rsListRendered
    /\ Len(rsPending) <= MaxReviewCalls
    /\ IF rsUser = NULL \/ ~\E k \in 1..Len(reviews) : reviews[k].id = id
       THEN /\ rsLast' = Last("delete", id, "refused", NULL)
            /\ UNCHANGED rsPending
       ELSE /\ rsLast' = Last("deleteClick", id, "none", NULL)
            /\ rsPending' = Append(rsPending,
                   RsCall("delete", rsUser, "delete", Some(id), 0, <<>>, <<>>, <<>>))
    /\ UNCHANGED <<reviews, newReview, rating, isSubmitting, rsLoading,
                   editingReviewId, currentUserReview, rsUser, dbReviews,
                   dbNextReviewId, exceptReview>>

\* handleDeleteReview(id) up to its await.  The Delete button of a displayed
\* review hands it the id of that review; the handler is taken with every id.
handleDeleteReview(id) ==
    /\ rsListRendered
    /\ Len(rsPending) <= MaxReviewCalls
    /\ IF \/ rsUser = NULL
          \/ ~\E k \in 1..Len(reviews) : reviews[k].id = id /\ reviews[k].user_id = rsUser
       THEN /\ rsLast' = Last("delete", id, "refused", NULL)
            /\ UNCHANGED rsPending
       ELSE /\ rsLast' = Last("deleteClick", id, "none", NULL)
            /\ rsPending' = Append(rsPending,
                   RsCall("delete", rsUser, "delete", Some(id), 0, <<>>, <<>>, <<>>))
    /\ UNCHANGED <<reviews, newReview, rating, isSubmitting, rsLoading,
                   editingReviewId, currentUserReview, rsUser, dbReviews,
                   dbNextReviewId, exceptReview>>

\* the mutant of handleDeleteReviewDone: no reload after the delete
handleDeleteReviewDoneNoReload(i, outcome) ==
    LET call == rsPending[i] IN
    /\ call.kind = "delete"
    /\ dbReviews' = IF outcome = "ok"
                    THEN {r \in dbReviews : r.id # Get(call.id)}
                    ELSE dbReviews
    /\ rsPending' = RemoveAt(rsPending, i)
    /\ rsLast' = Last("delete", Get(call.id), outcome,
           IF outcome = "ok" THEN "Review deleted" ELSE "Error deleting review")
    /\ UNCHANGED <<reviews, newReview, rating, isSubmitting, rsLoading,
                   editingReviewId, currentUserReview, rsUser, dbNextReviewId,
                   exceptReview>>

\* handleDeleteReview after the delete settles: a toast either way and, on
\* success, await fetchReviews() of the render that was clicked
handleDeleteReviewDone(i, outcome) ==
    LET call == rsPending[i] IN
    /\ call.kind = "delete"
    /\ dbReviews' = IF outcome = "ok"
                    THEN {r \in dbReviews : r.id # Get(call.id)}
                    ELSE dbReviews
    /\ IF outcome = "ok"
       THEN /\ rsLoading' = TRUE
            /\ rsPending' = ReplaceAt(rsPending, i, fetchReviews(call.user, "delete"))
       ELSE /\ rsPending' = RemoveAt(rsPending, i)
            /\ UNCHANGED rsLoading
    /\ rsLast' = Last("delete", Get(call.id), outcome,
           IF outcome = "ok" THEN "Review deleted" ELSE "Error deleting review")
    /\ UNCHANGED <<reviews, newReview, rating, isSubmitting,
                   editingReviewId, currentUserReview, rsUser, dbNextReviewId,
                   exceptReview>>

\* the section is mounted again (the page of the tool is opened anew)
rsMount ==
    /\ rsPending = <<>>
    /\ rsLast' = Last("mount", 0, "none", NULL)
    /\ reviews' = <<>>
    /\ newReview' = <<>>
    /\ rating' = 0
    /\ isSubmitting' = FALSE
    /\ rsLoading' = TRUE
    /\ editingReviewId' = None
    /\ currentUserReview' = None
    /\ rsPending' = <<fetchReviews(rsUser, "mount")>>
    /\ UNCHANGED <<rsUser, dbReviews, dbNextReviewId,
                   exceptReview>>

ReviewRow(id, u) == [id |-> id, user_id |-> u, rating |-> 4, comment |-> <<"h","i">>]

\* the reviews table when the page opens: at most one review per author
InitialReviews == { {}, {ReviewRow(1, "u1")}, {ReviewRow(1, "u2")},
                    {ReviewRow(1, "u1"), ReviewRow(2, "u2")} }

InitReview ==
    /\ reviews = <<>>
    /\ newReview = <<>>
    /\ rating = 0
    /\ isSubmitting = FALSE
    /\ rsLoading = TRUE
    /\ editingReviewId = None
    /\ currentUserReview = None
    /\ rsUser \in Users \cup {NULL}
    /\ rsPending = <<fetchReviews(rsUser, "mount")>>
    /\ rsLast = Last("mount", 0, "none", NULL)
    /\ dbReviews \in InitialReviews
    /\ dbNextReviewId = Cardinality(dbReviews) + 1

\* the section idle, for the specifications of the other components
IdleReview ==
    /\ reviews = <<>>
    /\ newReview = <<>>
    /\ rating = 0
    /\ isSubmitting = FALSE
    /\ rsLoading = TRUE
    /\ editingReviewId = None
    /\ currentUserReview = None
    /\ rsUser = NULL
    /\ rsPending = <<>>
    /\ rsLast = Last("mount", 0, "none", NULL)
    /\ dbReviews = {}
    /\ dbNextReviewId = 1

NextReview ==
    \/ \E i \in 1..Len(rsPending), o \in {"ok", "error"} : fetchReviewsData(i, o)
    \/ \E i \in 1..Len(rsPending), o \in {"ok", "error"} : fetchReviewsProfiles(i, o)
    \/ \E u \in Users \cup {NULL} : rsSessionChange(u)
    \/ \E n \in StarChoices : setRating(n)
    \/ \E c \in Comments : setNewReview(c)
    \/ \E k \in 1..Len(reviews) : editReview(k)
    \/ handleSubmitReview
    \/ \E i \in 1..Len(rsPending), o \in {"ok", "error"} : handleSubmitReviewWritten(i, o)
    \/ rsMount

\* the section under one session: every handler, the deletes included
NextReviewOps ==
    \/ \E i \in 1..Len(rsPending), o \in {"ok", "error"} : fetchReviewsData(i, o)
    \/ \E i \in 1..Len(rsPending), o \in {"ok", "error"} : fetchReviewsProfiles(i, o)
    \/ \E n \in StarChoices : setRating(n)
    \/ \E c \in Comments : setNewReview(c)
    \/ \E k \in 1..Len(reviews) : editReview(k)
    \/ handleSubmitReview
    \/ \E i \in 1..Len(rsPending), o \in {"ok", "error"} : handleSubmitReviewWritten(i, o)
    \/ \E id \in 1..(MaxReviewId + 1) : handleDeleteReview(id)
    \/ \E i \in 1..Len(rsPending), o \in {"ok", "error"} : handleDeleteReviewDone(i, o)

\* ------------------------------------------------------------------------
\* Comparison

NumCompareTools == 5
MaxSelected == 4

\* the identifier of a row as the string the URL carries
IdDigits == <<"1","2","3","4","5","6","7","8","9">>
IdString(n) == <<IdDigits[n]>>

\* Array.prototype.join(",") on a list of strings
RECURSIVE JoinComma(_)
JoinComma(list) ==
    IF list = <<>> THEN <<>>
    ELSE IF Len(list) = 1 THEN list[1]
    ELSE list[1] \o <<",">> \o JoinComma(Tail(list))

\* String.prototype.split(",")
RECURSIVE SplitComma(_)
SplitComma(str) ==
    IF \E i \in 1..Len(str) : str[i] = ","
    THEN LET i == CHOOSE k \in 1..Len(str) :
                     str[k] = "," /\ \A j \in 1..(k - 1) : str[j] # ","
         IN  <<SubSeq(str, 1, i - 1)>> \o SplitComma(SubSeq(str, i + 1, Len(str)))
    ELSE <<str>>

\* the tools table as the page reads it
CompareCatalog == SeqOfRows({r \in ToolRows : r.id <= NumCompareTools})

\* useEffect(..., [searchParams, allTools]): the selection the effect leaves,
\* given the selection the handler set
syncSelected(all, params, selected) ==
    IF Len(all) = 0 THEN selected
    ELSE LET ids == IF params # None THEN SplitComma(Get(params)) ELSE <<>>
         IN  SelectSeq(all, LAMBDA tool : InList(ids, IdString(tool.id)))

\* updateUrl(tools): the parameter it sets
updateUrl(list) ==
    LET ids == JoinComma([k \in 1..Len(list) |-> IdString(list[k].id)])
    IN  IF ids # <<>> THEN Some(ids) ELSE None

\* the page shows its main render: neither the loading line nor the error
cmpRendered == ~cmpLoading /\ cmpError = NULL

\* filteredTools of the page: the tools the add dialog lists
cmpFilteredTools ==
    IF searchTerm = <<>>
    THEN SelectSeq(allTools, LAMBDA tool :
            ~\E k \in 1..Len(selectedTools) : selectedTools[k].id = tool.id)
    ELSE SelectSeq(allTools, LAMBDA tool :
            /\ ~\E k \in 1..Len(selectedTools) : selectedTools[k].id = tool.id
            /\ \/ Includes(ToLowerCase(tool.name), ToLowerCase(searchTerm))
               \/ Includes(ToLowerCase(tool.description), ToLowerCase(searchTerm)))

\* the mutant of cmpFetchToolsDone: the loaded list is stored, the effect
\* on [searchParams, allTools] does not run
cmpFetchToolsDoneNoSync(outcome) ==
    /\ cmpLoading
    /\ IF outcome = "error"
       THEN /\ cmpError' = "Failed to load tools."
            /\ UNCHANGED <<allTools, selectedTools>>
       ELSE /\ allTools' = CompareCatalog
            /\ UNCHANGED <<selectedTools, cmpError>>
    /\ cmpLoading' = FALSE
    /\ cmpLast' = Last("fetchTools", 0, outcome, NULL)
    /\ UNCHANGED <<searchParams, searchTerm, isAddDialogOpen, exceptComparison>>

\* fetchTools of the page after its query settles, and the effect that follows
cmpFetchToolsDone(outcome) ==
    /\ cmpLoading
    /\ IF outcome = "error"
       THEN /\ cmpError' = "Failed to load tools."
            /\ UNCHANGED <<allTools, selectedTools>>
       ELSE /\ allTools' = CompareCatalog
            /\ selectedTools' = syncSelected(allTools', searchParams, selectedTools)
            /\ UNCHANGED cmpError
    /\ cmpLoading' = FALSE
    /\ cmpLast' = Last("fetchTools", 0, outcome, NULL)
    /\ UNCHANGED <<searchParams, searchTerm, isAddDialogOpen, exceptComparison>>

\* the browser reloads the page: the component mounts again under the URL
\* the last handler left, with the initial value of every useState cell
cmpReload ==
    /\ ~cmpLoading
    /\ allTools' = <<>>
    /\ selectedTools' = <<>>
    /\ searchTerm' = <<>>
    /\ isAddDialogOpen' = FALSE
    /\ cmpLoading' = TRUE
    /\ cmpError' = NULL
    /\ cmpLast' = Last("mount", 0, "none", NULL)
    /\ UNCHANGED <<searchParams, exceptComparison>>

\* the mutant of handleAddTool: a full selection takes another tool
handleAddToolNoCap(tool) ==
    /\ cmpRendered
    /\ LET newSelected == Append(selectedTools, tool) IN
       /\ searchParams' = updateUrl(newSelected)
       /\ selectedTools' = syncSelected(allTools, searchParams', newSelected)
       /\ isAddDialogOpen' = FALSE
       /\ cmpLast' = Last("addTool", tool.id, "ok", NULL)
    /\ UNCHANGED <<allTools, searchTerm, cmpLoading, cmpError, exceptComparison>>

\* handleAddTool, and the effect its change of the URL starts
handleAddTool(tool) ==
    /\ cmpRendered
    /\ IF Len(selectedTools) >= MaxSelected
       THEN /\ cmpLast' = Last("addTool", tool.id, "refused", NULL)
            /\ UNCHANGED <<selectedTools, searchParams, isAddDialogOpen>>
       ELSE LET newSelected == Append(selectedTools, tool) IN
            /\ searchParams' = updateUrl(newSelected)
            /\ selectedTools' = syncSelected(allTools, searchParams', newSelected)
            /\ isAddDialogOpen' = FALSE
            /\ cmpLast' = Last("addTool", tool.id, "ok", NULL)
    /\ UNCHANGED <<allTools, searchTerm, cmpLoading, cmpError, exceptComparison>>

\* the mutant of handleRemoveTool: the selection changes, the URL does not
handleRemoveToolNoUrl(id) ==
    /\ cmpRendered
    /\ LET newSelected == SelectSeq(selectedTools, LAMBDA t : t.id # id) IN
       /\ selectedTools' = newSelected
    /\ cmpLast' = Last("removeTool", id, "ok", NULL)
    /\ UNCHANGED <<searchParams, allTools, searchTerm, isAddDialogOpen, cmpLoading,
                   cmpError, exceptComparison>>

\* handleRemoveTool, and the effect its change of the URL starts
handleRemoveTool(id) ==
    /\ cmpRendered
    /\ LET newSelected == SelectSeq(selectedTools, LAMBDA t : t.id # id) IN
       /\ searchParams' = updateUrl(newSelected)
       /\ selectedTools' = syncSelected(allTools, searchParams', newSelected)
    /\ cmpLast' = Last("removeTool", id, "ok", NULL)
    /\ UNCHANGED <<allTools, searchTerm, isAddDialogOpen, cmpLoading, cmpError,
                   exceptComparison>>

\* the browser moves to another URL of the page (history, an edited address)
cmpNavigate(params) ==
    /\ params # searchParams
    /\ searchParams' = params
    /\ selectedTools' = syncSelected(allTools, params, selectedTools)
    /\ cmpLast' = Last("render", 0, "none", NULL)
    /\ UNCHANGED <<allTools, searchTerm, isAddDialogOpen, cmpLoading, cmpError,
                   exceptComparison>>

\* the add dialog opens or closes; it exists while fewer than four are selected
setIsAddDialogOpen(open) ==
    /\ cmpRendered
    /\ Len(selectedTools) < MaxSelected
    /\ open # isAddDialogOpen
    /\ isAddDialogOpen' = open
    /\ cmpLast' = Last("render", 0, "none", NULL)
    /\ UNCHANGED <<searchParams, allTools, selectedTools, searchTerm, cmpLoading,
                   cmpError, exceptComparison>>

setSearchTerm(term) ==
    /\ cmpRendered
    /\ isAddDialogOpen
    /\ term # searchTerm
    /\ searchTerm' = term
    /\ cmpLast' = Last("render", 0, "none", NULL)
    /\ UNCHANGED <<searchParams, allTools, selectedTools, isAddDialogOpen,
                   cmpLoading, cmpError, exceptComparison>>

\* the identifier lists a URL of the page is opened with: every choice of
\* known tools, and one naming a tool that does not exist
RECURSIVE SeqOfIdStrings(_)
SeqOfIdStrings(S) ==
    IF S = {} THEN <<>>
    ELSE LET i == CHOOSE x \in S : \A y \in S : x <= y
         IN  <<IdString(i)>> \o SeqOfIdStrings(S \ {i})

UrlParams ==
    {None} \cup {Some(JoinComma(SeqOfIdStrings(S))) : S \in SUBSET (1..NumCompareTools)}
           \cup {Some(JoinComma(<<IdString(1), IdString(9)>>))}

SearchTerms == { <<>>, <<"p","r","o">> }

InitComparison ==
    /\ searchParams \in UrlParams
    /\ allTools = <<>>
    /\ selectedTools = <<>>
    /\ searchTerm = <<>>
    /\ isAddDialogOpen = FALSE
    /\ cmpLoading = TRUE
    /\ cmpError = NULL
    /\ cmpLast = Last("mount", 0, "none", NULL)

IdleComparison ==
    /\ searchParams = None
    /\ allTools = <<>>
    /\ selectedTools = <<>>
    /\ searchTerm = <<>>
    /\ isAddDialogOpen = FALSE
    /\ cmpLoading = TRUE
    /\ cmpError = NULL
    /\ cmpLast = Last("mount", 0, "none", NULL)

NextComparison ==
    \/ \E o \in {"ok", "error"} : cmpFetchToolsDone(o)
    \/ \E k \in 1..Len(cmpFilteredTools) : handleAddTool(cmpFilteredTools[k])
    \/ \E k \in 1..Len(selectedTools) : handleRemoveTool(selectedTools[k].id)
    \/ \E p \in UrlParams : cmpNavigate(p)
    \/ \E b \in BOOLEAN : setIsAddDialogOpen(b)
    \/ \E t \in SearchTerms : setSearchTerm(t)
    \/ cmpReload

\* ------------------------------------------------------------------------
\* ToolsList: initial states and next-state relations

InitProps ==
    /\ searchQuery = <<>>
    /\ selectedCategory = AllFilter
    /\ selectedType = AllFilter
    /\ sortBy = "name"

InitCatalog ==
    /\ dbWishlist = {<<"u1", 1>>}
    /\ dbVotes = {}
    /\ dbVoteCount = [id \in CatalogIds |-> (CHOOSE r \in CatalogRows : r.id = id).votes]

\* ToolsList after construction: the mount effect has started loadData
InitToolsList ==
    /\ tools = <<>>
    /\ wishlistedTools = <<>>
    /\ votedTools = <<>>
    /\ tlLoading = TRUE
    /\ tlError = NULL
    /\ InitProps
    /\ tlUser \in ListUsers \cup {NULL}
    /\ tlPending = <<Request("load", tlUser, 0, FALSE)>>
    /\ tlLast = Last("mount", 0, "none", NULL)
    /\ tlTrip = NoTrip
    /\ InitCatalog
    /\ tlVotesLoaded = dbVoteCount

NextToolsList ==
    \/ \E i \in 1..Len(tlPending), o \in {"ok", "throw"} : loadDataDone(i, o)
    \/ \E t \in CatalogIds : handleWishlistToggle(t)
    \/ \E i \in 1..Len(tlPending), o \in {"ok", "error", "throw"} :
           handleWishlistToggleDone(i, o)
    \/ \E t \in CatalogIds : handleUpvote(t)
    \/ \E i \in 1..Len(tlPending), o \in {"ok", "error", "throw"} :
           handleUpvoteDone(i, o)

\* ToolsList with a loaded list, its props driven by the page around it
InitFilter ==
    /\ tools \in ToolLists(MaxTools)
    /\ wishlistedTools = <<>>
    /\ votedTools = <<>>
    /\ tlLoading = FALSE
    /\ tlError = NULL
    /\ InitProps
    /\ tlUser = NULL
    /\ tlPending = <<>>
    /\ tlLast = Last("mount", 0, "none", NULL)
    /\ tlTrip = NoTrip
    /\ InitCatalog
    /\ tlVotesLoaded = dbVoteCount

\* the state of the list and of its data layer, which a change of props
\* leaves alone
listVars == <<tools, wishlistedTools, votedTools, tlLoading, tlError, tlUser,
              tlPending, tlLast, tlVotesLoaded, tlTrip, dbVars>>

\* the page around the list hands it other props
setSearchQuery(q) ==
    /\ q # searchQuery
    /\ searchQuery' = q
    /\ UNCHANGED <<selectedCategory, selectedType, sortBy, listVars, exceptToolsList>>

setSelectedCategory(c) ==
    /\ c # selectedCategory
    /\ selectedCategory' = c
    /\ UNCHANGED <<searchQuery, selectedType, sortBy, listVars, exceptToolsList>>

setSelectedType(t) ==
    /\ t # selectedType
    /\ selectedType' = t
    /\ UNCHANGED <<searchQuery, selectedCategory, sortBy, listVars, exceptToolsList>>

setSortBy(k) ==
    /\ k # sortBy
    /\ sortBy' = k
    /\ UNCHANGED <<searchQuery, selectedCategory, selectedType, listVars, exceptToolsList>>

NextFilter ==
    \/ \E q \in SearchQueries : setSearchQuery(q)
    \/ \E c \in CategoryFilters : setSelectedCategory(c)
    \/ \E t \in TypeFilters : setSelectedType(t)
    \/ \E k \in SortKeys : setSortBy(k)

\* ------------------------------------------------------------------------
\* ToolCard: the card of one tool, its props handed down by the page

\* the tool prop
CardTool == 1

\* handleWishlistToggle of the card up to its await; the button carries
\* disabled={isWishlistLoading}
cardHandleWishlistToggle ==
    /\ ~isWishlistLoading
    /\ Len(tcPending) < MaxPending
    /\ IF tcUser = NULL
       THEN /\ tcLast' = Last("wishlist", CardTool, "refused", "Login required")
            /\ UNCHANGED <<isWishlistLoading, tcPending>>
       ELSE /\ isWishlistLoading' = TRUE
            /\ tcPending' = Append(tcPending,
                   Request("wishlist", tcUser, CardTool, tcIsWishlisted))
            /\ tcLast' = Last("wishlistClick", CardTool, "none", NULL)
    /\ UNCHANGED <<isVoting, tcIsWishlisted, tcUser, dbVars, exceptCard>>

\* handleWishlistToggle of the card after toggleWishlist settles:
\* if (error) throw error; toast; catch: toast; finally
cardHandleWishlistToggleDone(i, outcome) ==
    LET req == tcPending[i] IN
    /\ req.kind = "wishlist"
    /\ tcPending' = RemoveAt(tcPending, i)
    /\ dbWishlist' = IF outcome = "ok"
                     THEN toggleWishlist(req.user, req.tool, req.isWishlisted)
                     ELSE dbWishlist
    /\ tcLast' = Last("wishlist", req.tool, outcome,
           IF outcome = "ok"
           THEN IF req.isWishlisted THEN "Removed from wishlist"
                ELSE "Added to wishlist"
           ELSE "Error")
    /\ isWishlistLoading' = FALSE
    /\ UNCHANGED <<isVoting, tcIsWishlisted, tcUser, dbVotes, dbVoteCount, exceptCard>>

\* handleVote of the card up to its await; the vote control is a div with
\* onClick={handleVote} and no disabled state
cardHandleVote ==
    /\ Len(tcPending) < MaxPending
    /\ IF tcUser = NULL
       THEN /\ tcLast' = Last("vote", CardTool, "refused", "Login required")
            /\ UNCHANGED <<isVoting, tcPending>>
       ELSE /\ isVoting' = TRUE
            /\ tcPending' = Append(tcPending, Request("vote", tcUser, CardTool, FALSE))
            /\ tcLast' = Last("voteClick", CardTool, "none", NULL)
    /\ UNCHANGED <<isWishlistLoading, tcIsWishlisted, tcUser, dbVars, exceptCard>>

\* handleVote of the card after upvoteTool settles
cardHandleVoteDone(i, outcome) ==
    LET req == tcPending[i] IN
    /\ req.kind = "vote"
    /\ tcPending' = RemoveAt(tcPending, i)
    /\ dbVotes' = IF outcome = "ok" THEN upvoteToolVotes(req.user, req.tool)
                  ELSE dbVotes
    /\ dbVoteCount' = IF outcome = "ok" THEN upvoteToolCount(req.user, req.tool)
                      ELSE dbVoteCount
    /\ tcLast' = Last("vote", req.tool, outcome,
           IF outcome = "ok" THEN "Vote recorded" ELSE "Error")
    /\ isVoting' = FALSE
    /\ UNCHANGED <<isWishlistLoading, tcIsWishlisted, tcUser, dbWishlist, exceptCard>>

\* the page renders the card again with the membership it has reloaded
\* (onWishlistChange) or for another user
cardRender(u) ==
    /\ tcUser' = u
    /\ tcIsWishlisted' = (u # NULL /\ <<u, CardTool>> \in dbWishlist)
    /\ <<tcUser', tcIsWishlisted'>> # <<tcUser, tcIsWishlisted>>
    /\ tcLast' = Last("render", CardTool, "none", NULL)
    /\ UNCHANGED <<isWishlistLoading, isVoting, tcPending, dbVars, exceptCard>>

IdleCard ==
    /\ isWishlistLoading = FALSE
    /\ isVoting = FALSE
    /\ tcIsWishlisted = FALSE
    /\ tcUser = NULL
    /\ tcPending = <<>>
    /\ tcLast = Last("mount", CardTool, "none", NULL)

NextCard ==
    \/ cardHandleWishlistToggle
    \/ \E i \in 1..Len(tcPending), o \in {"ok", "error", "throw"} :
           cardHandleWishlistToggleDone(i, o)
    \/ cardHandleVote
    \/ \E i \in 1..Len(tcPending), o \in {"ok", "error", "throw"} :
           cardHandleVoteDone(i, o)
    \/ \E u \in Users \cup {NULL} : cardRender(u)

\* ------------------------------------------------------------------------
\* Collections: the page of the collections of the user; its create dialog.
\* The description and the visibility of the form keep their initial values.

MaxCollections == 1
MaxCollectionCalls == 2
NumCollectionTools == 1

\* .from("tools").select("*") of this page
colFetchTools == SubSeq(CatalogSeq, 1, NumCollectionTools)

CollectionNames == { <<" ">>, <<"m","y">> }
ToolSearchQueries == { <<>>, <<"W","E","B">> }

EmptyForm == [name |-> <<>>, description |-> <<>>, is_public |-> TRUE]

\* a call in flight, the user of the render that started it, and the row
\* an insert carries
ColCall(kind, user, name, toolIds) ==
    [kind |-> kind, user |-> user, name |-> name, tool_ids |-> toolIds, id |-> 0]

\* an update or a delete in flight: .eq("id", id)
ColWrite(kind, user, id, name, toolIds) ==
    [ColCall(kind, user, name, toolIds) EXCEPT !.id = id]

\* useEffect(() => { fetchTools(); loadCollectionsFromSupabase(); }, [user]):
\* the calls it leaves in flight; loadCollectionsFromSupabase returns at once
\* without a user
colEffect(u) ==
    <<ColCall("tools", u, <<>>, <<>>)>>
        \o (IF u # NULL THEN <<ColCall("collections", u, <<>>, <<>>)>> ELSE <<>>)

\* const filteredTools = allTools.filter(...) of the dialog
colFilteredTools ==
    SelectSeq(colAllTools,
        LAMBDA tool : \/ Includes(ToLowerCase(tool.name), ToLowerCase(toolSearchQuery))
                      \/ Includes(ToLowerCase(tool.description),
                                  ToLowerCase(toolSearchQuery)))

\* .from("collections").select("*").eq("user_id", user.id), in the order of
\* the identifiers
RECURSIVE CollectionsOf(_, _)
CollectionsOf(rows, u) ==
    LET mine == {r \in rows : r.user_id = u} IN
    IF mine = {} THEN <<>>
    ELSE LET r == CHOOSE x \in mine : \A y \in mine : x.id <= y.id
         IN  <<r>> \o CollectionsOf(mine \ {r}, u)

\* the AuthProvider hands the page another user: the effect on [user] runs
colSessionChange(u) ==
    /\ u # colUser
    /\ Len(colPending) + 2 <= MaxCollectionCalls
    /\ colUser' = u
    /\ colPending' = colPending \o colEffect(u)
    /\ colLast' = Last("render", 0, "none", NULL)
    /\ UNCHANGED <<collections, colAllTools, isCreateOpen, colSelectedTools,
                   toolSearchQuery, formData, dbCollections, dbNextCollectionId,
                   editVars, exceptCollections>>

\* fetchTools after its query: if (!error) setAllTools(data || [])
colFetchToolsDone(i, outcome) ==
    /\ colPending[i].kind = "tools"
    /\ colPending' = RemoveAt(colPending, i)
    /\ colAllTools' = IF outcome = "ok" THEN colFetchTools ELSE colAllTools
    /\ colLast' = Last("render", 0, "none", NULL)
    /\ UNCHANGED <<collections, isCreateOpen, colSelectedTools, toolSearchQuery,
                   formData, colUser, dbCollections, dbNextCollectionId,
                   editVars, exceptCollections>>

\* loadCollectionsFromSupabase after its query:
\* if (!error) setCollections(data || [])
loadCollectionsDone(i, outcome) ==
    /\ colPending[i].kind = "collections"
    /\ colPending' = RemoveAt(colPending, i)
    /\ collections' = IF outcome = "ok"
                      THEN CollectionsOf(dbCollections, colPending[i].user)
                      ELSE collections
    /\ colLast' = Last("render", 0, "none", NULL)
    /\ UNCHANGED <<colAllTools, isCreateOpen, colSelectedTools, toolSearchQuery,
                   formData, colUser, dbCollections, dbNextCollectionId,
                   editVars, exceptCollections>>

\* the Create Collection buttons open the dialog, onOpenChange closes it
setIsCreateOpen(open) ==
    /\ open # isCreateOpen
    /\ isCreateOpen' = open
    /\ colLast' = Last("render", 0, "none", NULL)
    /\ UNCHANGED <<collections, colAllTools, colSelectedTools, toolSearchQuery,
                   formData, colUser, colPending, dbCollections,
                   dbNextCollectionId, editVars, exceptCollections>>

\* the name input of the dialog: setFormData({ ...formData, name })
setFormDataName(text) ==
    /\ isCreateOpen \/ isEditOpen
    /\ formData' = [formData EXCEPT !.name = text]
    /\ colLast' = Last("render", 0, "none", NULL)
    /\ UNCHANGED <<collections, colAllTools, isCreateOpen, colSelectedTools,
                   toolSearchQuery, colUser, colPending, dbCollections,
                   dbNextCollectionId, editVars, exceptCollections>>

\* the search input over the tools of the dialog
setToolSearchQuery(q) ==
    /\ isCreateOpen \/ isEditOpen
    /\ q # toolSearchQuery
    /\ toolSearchQuery' = q
    /\ colLast' = Last("render", 0, "none", NULL)
    /\ UNCHANGED <<collections, colAllTools, isCreateOpen, colSelectedTools,
                   formData, colUser, colPending, dbCollections,
                   dbNextCollectionId, editVars, exceptCollections>>

\* toggleToolSelection(tool.id) of a tool the dialog lists
toggleToolSelection(toolId) ==
    /\ isCreateOpen \/ isEditOpen
    /\ \E k \in 1..Len(colFilteredTools) : colFilteredTools[k].id = toolId
    /\ colSelectedTools' =
           IF InList(colSelectedTools, toolId)
           THEN SelectSeq(colSelectedTools, LAMBDA id : id # toolId)
           ELSE Append(colSelectedTools, toolId)
    /\ colLast' = Last("render", 0, "none", NULL)
    /\ UNCHANGED <<collections, colAllTools, isCreateOpen, toolSearchQuery,
                   formData, colUser, colPending, dbCollections,
                   dbNextCollectionId, editVars, exceptCollections>>

\* the mutant of handleCreateCollection: the insert is issued without a user
handleCreateCollectionNoUserGuard ==
    /\ isCreateOpen
    /\ Len(colPending) < MaxCollectionCalls
    /\ dbNextCollectionId + CountKind(colPending, {"insert"}) <= MaxCollections
    /\ IF Trim(formData.name) = <<>>
       THEN /\ colLast' = Last("create", 0, "refused", "Name required")
            /\ UNCHANGED colPending
       ELSE /\ colLast' = Last("createClick", 0, "none", NULL)
            /\ colPending' = Append(colPending,
                   ColCall("insert", colUser, formData.name, colSelectedTools))
    /\ UNCHANGED <<collections, colAllTools, isCreateOpen, colSelectedTools,
                   toolSearchQuery, formData, colUser, dbCollections,
                   dbNextCollectionId, editVars, exceptCollections>>

\* handleCreateCollection up to its await; the button of the dialog has no
\* disabled state
handleCreateCollection ==
    /\ isCreateOpen
    /\ Len(colPending) < MaxCollectionCalls
    /\ dbNextCollectionId + CountKind(colPending, {"insert"}) <= MaxCollections
    /\ IF colUser = NULL
       THEN /\ colLast' = Last("create", 0, "refused", "Authentication required")
            /\ UNCHANGED colPending
       ELSE IF Trim(formData.name) = <<>>
       THEN /\ colLast' = Last("create", 0, "refused", "Name required")
            /\ UNCHANGED colPending
       ELSE /\ colLast' = Last("createClick", 0, "none", NULL)
            /\ colPending' = Append(colPending,
                   ColCall("insert", colUser, formData.name, colSelectedTools))
    /\ UNCHANGED <<collections, colAllTools, isCreateOpen, colSelectedTools,
                   toolSearchQuery, formData, colUser, dbCollections,
                   dbNextCollectionId, editVars, exceptCollections>>

\* handleCreateCollection after the insert settles: a toast either way; on
\* success the form is reset, the dialog closed and the collections of the
\* user of the render that was clicked are loaded again
handleCreateCollectionDone(i, outcome) ==
    LET call == colPending[i] IN
    /\ call.kind = "insert"
    /\ IF outcome = "ok"
       THEN /\ dbCollections' = dbCollections \cup
                   {[id |-> dbNextCollectionId, user_id |-> call.user,
                     name |-> call.name, tool_ids |-> call.tool_ids]}
            /\ dbNextCollectionId' = dbNextCollectionId + 1
            /\ formData' = EmptyForm
            /\ colSelectedTools' = <<>>
            /\ toolSearchQuery' = <<>>
            /\ isCreateOpen' = FALSE
            /\ colPending' = ReplaceAt(colPending, i,
                   ColCall("collections", call.user, <<>>, <<>>))
            /\ colLast' = Last("create", 0, outcome, "Collection created")
       ELSE /\ colPending' = RemoveAt(colPending, i)
            /\ colLast' = Last("create", 0, outcome, "Error")
            /\ UNCHANGED <<dbCollections, dbNextCollectionId, formData,
                           colSelectedTools, toolSearchQuery, isCreateOpen>>
    /\ UNCHANGED <<collections, colAllTools, colUser, editVars, exceptCollections>>

\* the Delete item of the menu of a listed collection, and onOpenChange of
\* the confirmation, which sets the cell back to null
setDeleteCollectionId(v) ==
    /\ v # deleteCollectionId
    /\ v # None => \E k \in 1..Len(collections) : collections[k].id = Get(v)
    /\ deleteCollectionId' = v
    /\ colLast' = Last("render", 0, "none", NULL)
    /\ UNCHANGED <<collections, colAllTools, isCreateOpen, colSelectedTools,
                   toolSearchQuery, formData, colUser, colPending, dbCollections,
                   dbNextCollectionId, editCollectionId, isEditOpen,
                   exceptCollections>>

\* handleDeleteCollection up to its await: the Delete button of the
\* confirmation, which also closes the confirmation (onOpenChange)
handleDeleteCollection ==
    /\ deleteCollectionId # None
    /\ Len(colPending) < MaxCollectionCalls
    /\ colPending' = Append(colPending,
           ColWrite("delete", colUser, Get(deleteCollectionId), <<>>, <<>>))
    /\ deleteCollectionId' = None
    /\ colLast' = Last("deleteClick", Get(deleteCollectionId), "none", NULL)
    /\ UNCHANGED <<collections, colAllTools, isCreateOpen, colSelectedTools,
                   toolSearchQuery, formData, colUser, dbCollections,
                   dbNextCollectionId, editCollectionId, isEditOpen,
                   exceptCollections>>

\* loadCollectionsFromSupabase() at the end of a handler: it reads the user
\* of the render the handler belongs to and returns at once without one
colReload(pending, i, user) ==
    IF user # NULL
    THEN ReplaceAt(pending, i, ColCall("collections", user, <<>>, <<>>))
    ELSE RemoveAt(pending, i)

\* handleDeleteCollection after the delete settles
handleDeleteCollectionDone(i, outcome) ==
    LET call == colPending[i] IN
    /\ call.kind = "delete"
    /\ IF outcome = "ok"
       THEN /\ dbCollections' = {r \in dbCollections : r.id # call.id}
            /\ deleteCollectionId' = None
            /\ colPending' = colReload(colPending, i, call.user)
            /\ colLast' = Last("delete", call.id, outcome, "Collection deleted")
       ELSE /\ colPending' = RemoveAt(colPending, i)
            /\ colLast' = Last("delete", call.id, outcome, "Error")
            /\ UNCHANGED <<dbCollections, deleteCollectionId>>
    /\ UNCHANGED <<collections, colAllTools, isCreateOpen, colSelectedTools,
                   toolSearchQuery, formData, colUser, dbNextCollectionId,
                   editCollectionId, isEditOpen, exceptCollections>>

\* openEditDialog(collection): the Edit item of the menu of a listed collection
openEditDialog(k) ==
    /\ k \in 1..Len(collections)
    /\ ~isEditOpen
    /\ editCollectionId' = Some(collections[k].id)
    /\ formData' = [EmptyForm EXCEPT !.name = collections[k].name]
    /\ colSelectedTools' = collections[k].tool_ids
    /\ isEditOpen' = TRUE
    /\ colLast' = Last("render", 0, "none", NULL)
    /\ UNCHANGED <<collections, colAllTools, isCreateOpen, toolSearchQuery,
                   colUser, colPending, dbCollections, dbNextCollectionId,
                   deleteCollectionId, exceptCollections>>

\* onOpenChange of the edit dialog: it closes; editCollectionId and the form
\* keep their values
setIsEditOpen(open) ==
    /\ isEditOpen
    /\ ~open
    /\ isEditOpen' = open
    /\ colLast' = Last("render", 0, "none", NULL)
    /\ UNCHANGED <<collections, colAllTools, isCreateOpen, colSelectedTools,
                   toolSearchQuery, formData, colUser, colPending, dbCollections,
                   dbNextCollectionId, deleteCollectionId, editCollectionId,
                   exceptCollections>>

\* handleEditSave up to its await: Save Changes of the edit dialog
handleEditSave ==
    /\ isEditOpen
    /\ Len(colPending) < MaxCollectionCalls
    /\ IF editCollectionId = None
       THEN /\ colLast' = Last("edit", 0, "refused", NULL)
            /\ UNCHANGED colPending
       ELSE /\ colLast' = Last("editClick", Get(editCollectionId), "none", NULL)
            /\ colPending' = Append(colPending,
                   ColWrite("update", colUser, Get(editCollectionId),
                            formData.name, colSelectedTools))
    /\ UNCHANGED <<collections, colAllTools, isCreateOpen, colSelectedTools,
                   toolSearchQuery, formData, colUser, dbCollections,
                   dbNextCollectionId, editVars, exceptCollections>>

\* handleEditSave after the update settles
handleEditSaveDone(i, outcome) ==
    LET call == colPending[i] IN
    /\ call.kind = "update"
    /\ IF outcome = "ok"
       THEN /\ dbCollections' =
                   {IF r.id = call.id
                    THEN [r EXCEPT !.name = call.name, !.tool_ids = call.tool_ids]
                    ELSE r : r \in dbCollections}
            /\ isEditOpen' = FALSE
            /\ editCollectionId' = None
            /\ colPending' = colReload(colPending, i, call.user)
            /\ colLast' = Last("edit", call.id, outcome,
                               "Collection updated successfully")
       ELSE /\ colPending' = RemoveAt(colPending, i)
            /\ colLast' = Last("edit", call.id, outcome,
                               "Failed to update collection")
            /\ UNCHANGED <<dbCollections, isEditOpen, editCollectionId>>
    /\ UNCHANGED <<collections, colAllTools, isCreateOpen, colSelectedTools,
                   toolSearchQuery, formData, colUser, dbNextCollectionId,
                   deleteCollectionId, exceptCollections>>

\* the rows of the collections table when the page opens: none, or one that
\* the first user created earlier
InitialCollections ==
    { {}, {[id |-> 1, user_id |-> "u1", name |-> <<"m","y">>, tool_ids |-> <<>>]} }

\* the page is mounted over a table that may hold a collection
InitCollectionsStored ==
    /\ collections = <<>>
    /\ colAllTools = <<>>
    /\ isCreateOpen = FALSE
    /\ colSelectedTools = <<>>
    /\ toolSearchQuery = <<>>
    /\ formData = EmptyForm
    /\ colUser \in ListUsers \cup {NULL}
    /\ colPending = colEffect(colUser)
    /\ colLast = Last("mount", 0, "none", NULL)
    /\ dbCollections \in InitialCollections
    /\ dbNextCollectionId = Cardinality(dbCollections) + 1
    /\ deleteCollectionId = None
    /\ editCollectionId = None
    /\ isEditOpen = FALSE

\* Collections through sign-in, sign-out and a change of identity, with its
\* three dialogs
NextCollections ==
    \/ \E u \in Users \cup {NULL} : colSessionChange(u)
    \/ \E i \in 1..Len(colPending), o \in {"ok", "error"} : colFetchToolsDone(i, o)
    \/ \E i \in 1..Len(colPending), o \in {"ok", "error"} : loadCollectionsDone(i, o)
    \/ \E b \in BOOLEAN : setIsCreateOpen(b)
    \/ \E n \in CollectionNames : setFormDataName(n)
    \/ \E t \in IdsOf(colFetchTools) : toggleToolSelection(t)
    \/ handleCreateCollection
    \/ \E i \in 1..Len(colPending), o \in {"ok", "error"} :
           handleCreateCollectionDone(i, o)
    \/ \E v \in {None} \cup {Some(id) : id \in 1..MaxCollections} :
           setDeleteCollectionId(v)
    \/ handleDeleteCollection
    \/ \E i \in 1..Len(colPending), o \in {"ok", "error"} :
           handleDeleteCollectionDone(i, o)
    \/ \E k \in 1..MaxCollections : openEditDialog(k)
    \/ setIsEditOpen(FALSE)
    \/ handleEditSave
    \/ \E i \in 1..Len(colPending), o \in {"ok", "error"} : handleEditSaveDone(i, o)

\* the page is mounted, no collection stored yet
InitCollections ==
    /\ collections = <<>>
    /\ colAllTools = <<>>
    /\ isCreateOpen = FALSE
    /\ colSelectedTools = <<>>
    /\ toolSearchQuery = <<>>
    /\ formData = EmptyForm
    /\ colUser \in ListUsers \cup {NULL}
    /\ colPending = colEffect(colUser)
    /\ colLast = Last("mount", 0, "none", NULL)
    /\ dbCollections = {}
    /\ dbNextCollectionId = 1
    /\ deleteCollectionId = None
    /\ editCollectionId = None
    /\ isEditOpen = FALSE

IdleCollections ==
    /\ collections = <<>>
    /\ colAllTools = <<>>
    /\ isCreateOpen = FALSE
    /\ colSelectedTools = <<>>
    /\ toolSearchQuery = <<>>
    /\ formData = EmptyForm
    /\ colUser = NULL
    /\ colPending = <<>>
    /\ colLast = Last("mount", 0, "none", NULL)
    /\ dbCollections = {}
    /\ dbNextCollectionId = 1
    /\ deleteCollectionId = None
    /\ editCollectionId = None
    /\ isEditOpen = FALSE

\* ------------------------------------------------------------------------
\* Roadmap: the form, the lookup table of the tools and generateRoadmap.
\* The goal field only enters the prompt and is left out.

MaxRoadmapCalls == 1

\* a field a stage of the completion may lack
NoStage == [stage |-> None, title |-> None, skills |-> None, tools |-> None,
            certifications |-> None]

\* a stage in the shape the prompt asks for, with the given tool names
StageOf(n, names) ==
    [stage |-> Some(n), title |-> Some("Stage Title"), skills |-> Some(<<"skill1">>),
     tools |-> Some(names), certifications |-> Some(<<"Cert1">>)]

\* The completion text, as the tokens JSON.parse reads: the brackets "[" and
\* "]", the comma ",", an "object" literal with its value, a "word" of prose
Token(t, v) == [t |-> t, v |-> v]

\* the text of an array of the given object literals
RECURSIVE ArrayText(_)
ArrayText(stages) ==
    IF stages = <<>> THEN <<Token("[", NoStage), Token("]", NoStage)>>
    ELSE IF Len(stages) = 1
    THEN <<Token("[", NoStage), Token("object", stages[1]), Token("]", NoStage)>>
    ELSE LET front == ArrayText(SubSeq(stages, 1, Len(stages) - 1))
         IN  SubSeq(front, 1, Len(front) - 1)
                 \o <<Token(",", NoStage), Token("object", stages[Len(stages)]),
                      Token("]", NoStage)>>

\* four stages as the prompt asks for them
FourStages == ArrayText(<<StageOf(1, <<"nmap", "burp">>), StageOf(2, <<"zap">>),
                         StageOf(3, <<>>), StageOf(4, <<"burp", "nmap">>)>>)

\* an array cut off after the comma behind its second stage
Truncated == SubSeq(FourStages, 1, 5)

\* the texts the completion service may return: the four stages, one stage,
\* no stage, the cut-off array, an array after a word of prose, an object
\* outside any array, a stage without tools, a stage whose tool has the name
\* of a property of Object.prototype, and the empty text
CompletionTexts ==
    { FourStages,
      ArrayText(<<StageOf(2, <<"zap">>)>>),
      ArrayText(<<>>),
      Truncated,
      <<Token("word", NoStage)>> \o ArrayText(<<StageOf(2, <<"zap">>)>>),
      <<Token("object", StageOf(2, <<"zap">>))>>,
      ArrayText(<<[StageOf(3, <<>>) EXCEPT !.tools = None]>>),
      ArrayText(<<StageOf(1, <<"constructor">>)>>),
      <<>> }

\* what the fetch of the completion settles with: a rejection, or a response
\* with its status and choices[0].message.content
Response(kind, ok, content) == [kind |-> kind, ok |-> ok, content |-> content]
Responses ==
    {Response("reject", FALSE, None), Response("http", FALSE, None),
     Response("http", TRUE, None)}
        \cup {Response("http", TRUE, Some(text)) : text \in CompletionTexts}

\* JSON.parse: the elements of an array are read one by one from the left,
\* each followed by a comma and another element or by the closing bracket,
\* which must end the text
RECURSIVE ParseElements(_, _, _)
ParseElements(text, i, found) ==
    IF i > Len(text) \/ text[i].t # "object"
    THEN [ok |-> FALSE, isArray |-> TRUE, value |-> found]
    ELSE IF i + 1 = Len(text) /\ text[i + 1].t = "]"
    THEN [ok |-> TRUE, isArray |-> TRUE, value |-> Append(found, text[i].v)]
    ELSE IF i + 1 < Len(text) /\ text[i + 1].t = ","
    THEN ParseElements(text, i + 2, Append(found, text[i].v))
    ELSE [ok |-> FALSE, isArray |-> TRUE, value |-> Append(found, text[i].v)]

JSONParse(text) ==
    IF text = <<>> THEN [ok |-> FALSE, isArray |-> FALSE, value |-> <<>>]
    ELSE IF text[1].t = "object"
    THEN [ok |-> Len(text) = 1, isArray |-> FALSE, value |-> <<text[1].v>>]
    ELSE IF text[1].t # "["
    THEN [ok |-> FALSE, isArray |-> FALSE, value |-> <<>>]
    ELSE IF Len(text) = 2 /\ text[2].t = "]"
    THEN [ok |-> TRUE, isArray |-> TRUE, value |-> <<>>]
    ELSE ParseElements(text, 2, <<>>)

\* the rows of the tools table, name and description
RoadmapTools == << [name |-> "nmap", description |-> "Network scanner"],
                   [name |-> "zap", description |-> ""] >>

\* const table = {}; data.forEach((tool) => { table[tool.name] =
\*     tool.description || "No description available."; })
tableOf(data) ==
    [n \in {data[k].name : k \in 1..Len(data)} |->
        LET last == CHOOSE k \in 1..Len(data) :
                        /\ data[k].name = n
                        /\ \A j \in 1..Len(data) : data[j].name = n => j <= k
        IN  IF data[last].description # "" THEN data[last].description
            ELSE "No description available."]

\* the properties every object literal inherits from Object.prototype, and
\* what reading one of them gives (a function, not a string)
ObjectPrototype == {"constructor", "toString", "valueOf", "hasOwnProperty"}
Inherited == "[inherited function]"

\* toolsTable[toolName]
PropertyOf(table, name) ==
    IF name \in DOMAIN table THEN Some(table[name])
    ELSE IF name \in ObjectPrototype THEN Some(Inherited)
    ELSE None

\* toolsTable[toolName] || "Learn this tool as part of this stage"
describeTool(table, name) ==
    IF PropertyOf(table, name) # None /\ PropertyOf(table, name) # Some("")
    THEN Get(PropertyOf(table, name))
    ELSE "Learn this tool as part of this stage"

\* parsed.map((stage) => ({ ..., tools: stage.tools.map(...) }))
enriched(parsed, table) ==
    [k \in 1..Len(parsed) |->
        [stage |-> parsed[k].stage, title |-> parsed[k].title,
         skills |-> parsed[k].skills,
         tools |-> [j \in 1..Len(Get(parsed[k].tools)) |->
                       [name |-> Get(parsed[k].tools)[j],
                        description |-> describeTool(table, Get(parsed[k].tools)[j])]],
         certifications |-> parsed[k].certifications]]

\* parsed.map or stage.tools.map is called on a value without that method
mapThrows(parsed) ==
    \/ ~parsed.isArray
    \/ \E k \in 1..Len(parsed.value) : parsed.value[k].tools = None

RmCall(kind, table) == [kind |-> kind, table |-> table]

RmLast(op, outcome, notice, raw, table) ==
    [op |-> op, outcome |-> outcome, notice |-> notice, raw |-> raw,
     table |-> table]

Quiet == RmLast("render", "none", NULL, <<>>, <<>>)

\* the selects and the input of the form
setRole(v) ==
    /\ v # role
    /\ role' = v
    /\ rmLast' = Quiet
    /\ UNCHANGED <<experience, hoursPerWeek, roadmap, toolsTable, rmPending,
                   exceptRoadmap>>

setExperience(v) ==
    /\ v # experience
    /\ experience' = v
    /\ rmLast' = Quiet
    /\ UNCHANGED <<role, hoursPerWeek, roadmap, toolsTable, rmPending,
                   exceptRoadmap>>

setHoursPerWeek(v) ==
    /\ v # hoursPerWeek
    /\ hoursPerWeek' = v
    /\ rmLast' = Quiet
    /\ UNCHANGED <<role, experience, roadmap, toolsTable, rmPending,
                   exceptRoadmap>>

\* fetchTools of the mount effect after its query
rmFetchToolsDone(i, outcome) ==
    /\ rmPending[i].kind = "tools"
    /\ rmPending' = RemoveAt(rmPending, i)
    /\ toolsTable' = IF outcome = "ok" THEN tableOf(RoadmapTools) ELSE toolsTable
    /\ rmLast' = Quiet
    /\ UNCHANGED <<role, experience, hoursPerWeek, roadmap, exceptRoadmap>>

\* generateRoadmap up to its fetch; the button carries
\* disabled={!role || !experience || !hoursPerWeek}
generateRoadmap ==
    /\ role # "" /\ experience # "" /\ hoursPerWeek # ""
    /\ CountKind(rmPending, {"groq"}) < MaxRoadmapCalls
    /\ rmPending' = Append(rmPending, RmCall("groq", toolsTable))
    /\ rmLast' = RmLast("generateClick", "none", NULL, <<>>, toolsTable)
    /\ UNCHANGED <<role, experience, hoursPerWeek, roadmap, toolsTable,
                   exceptRoadmap>>

\* the mutant of generateRoadmapDone: the elements read before a parse error
\* are rendered
generateRoadmapDonePartial(i, response) ==
    LET call   == rmPending[i]
        raw    == IF response.content = None THEN <<>> ELSE Get(response.content)
        parsed == JSONParse(raw)
    IN
    /\ call.kind = "groq"
    /\ rmPending' = RemoveAt(rmPending, i)
    /\ IF response.kind = "reject"
       THEN /\ rmLast' = RmLast("generate", "networkError", NULL, raw, call.table)
            /\ UNCHANGED roadmap
       ELSE IF ~response.ok
       THEN /\ rmLast' = RmLast("generate", "functionError", NULL, raw, call.table)
            /\ UNCHANGED roadmap
       ELSE IF raw = <<>>
       THEN /\ rmLast' = RmLast("generate", "invalidResponse", NULL, raw, call.table)
            /\ UNCHANGED roadmap
       ELSE IF ~parsed.ok
       THEN /\ rmLast' = RmLast("generate", "invalidJson", NULL, raw, call.table)
            /\ roadmap' = enriched(parsed.value, call.table)
       ELSE IF mapThrows(parsed)
       THEN /\ rmLast' = RmLast("generate", "networkError", NULL, raw, call.table)
            /\ UNCHANGED roadmap
       ELSE /\ rmLast' = RmLast("generate", "ok", NULL, raw, call.table)
            /\ roadmap' = enriched(parsed.value, call.table)
    /\ UNCHANGED <<role, experience, hoursPerWeek, toolsTable, exceptRoadmap>>

\* generateRoadmap after its fetch settles.  Every failure ends in
\* console.error and a return; a TypeError of the assembly is caught by the
\* outer catch, which logs "Network error".  toolsTable is the table of the
\* render that was clicked.
generateRoadmapDone(i, response) ==
    LET call   == rmPending[i]
        raw    == IF response.content = None THEN <<>> ELSE Get(response.content)
        parsed == JSONParse(raw)
    IN
    /\ call.kind = "groq"
    /\ rmPending' = RemoveAt(rmPending, i)
    /\ IF response.kind = "reject"
       THEN /\ rmLast' = RmLast("generate", "networkError", NULL, raw, call.table)
            /\ UNCHANGED roadmap
       ELSE IF ~response.ok
       THEN /\ rmLast' = RmLast("generate", "functionError", NULL, raw, call.table)
            /\ UNCHANGED roadmap
       ELSE IF raw = <<>>
       THEN /\ rmLast' = RmLast("generate", "invalidResponse", NULL, raw, call.table)
            /\ UNCHANGED roadmap
       ELSE IF ~parsed.ok
       THEN /\ rmLast' = RmLast("generate", "invalidJson", NULL, raw, call.table)
            /\ UNCHANGED roadmap
       ELSE IF mapThrows(parsed)
       THEN /\ rmLast' = RmLast("generate", "networkError", NULL, raw, call.table)
            /\ UNCHANGED roadmap
       ELSE /\ rmLast' = RmLast("generate", "ok", NULL, raw, call.table)
            /\ roadmap' = enriched(parsed.value, call.table)
    /\ UNCHANGED <<role, experience, hoursPerWeek, toolsTable, exceptRoadmap>>

\* the page is mounted: the effect has called fetchTools
InitRoadmap ==
    /\ role = ""
    /\ experience = ""
    /\ hoursPerWeek = ""
    /\ roadmap = <<>>
    /\ toolsTable = <<>>
    /\ rmPending = <<RmCall("tools", <<>>)>>
    /\ rmLast = Quiet

IdleRoadmap ==
    /\ role = ""
    /\ experience = ""
    /\ hoursPerWeek = ""
    /\ roadmap = <<>>
    /\ toolsTable = <<>>
    /\ rmPending = <<>>
    /\ rmLast = Quiet

NextRoadmap ==
    \/ \E v \in {"SOC Analyst"} : setRole(v)
    \/ \E v \in {"Beginner"} : setExperience(v)
    \/ \E v \in {"", "5"} : setHoursPerWeek(v)
    \/ \E i \in 1..Len(rmPending), o \in {"ok", "error"} : rmFetchToolsDone(i, o)
    \/ generateRoadmap
    \/ \E i \in 1..Len(rmPending), r \in Responses : generateRoadmapDone(i, r)

\* ------------------------------------------------------------------------
\* AuthProvider (ToolsList.tsx:453-553) and AdminRoute (AdminRoute.tsx)

MaxAuthRuns == 2

\* profiles.role as the table may hold it
Roles == {"admin", "ADMIN", "user", NULL}

\* the profiles table: the role of each user
ProfileTables ==
    { [u \in Users |-> IF u = "u1" THEN "admin" ELSE "user"],
      [u \in Users |-> IF u = "u1" THEN "ADMIN" ELSE NULL] }

\* a run of fetchUserAndProfile in flight: the await it waits at, and the
\* authUser it holds
AuthRun(step, user) == [step |-> step, user |-> user]

\* fetchUserAndProfile up to supabase.auth.getSession()
fetchUserAndProfile ==
    /\ authLoading' = TRUE
    /\ authPending' = Append(authPending, AuthRun("getSession", NULL))

\* supabase.auth.onAuthStateChange: the session becomes that of u (or stays,
\* for a notification that changes no identity) and the callback runs
onAuthStateChange(u) ==
    /\ Len(authPending) < MaxAuthRuns
    /\ authSession' = u
    /\ fetchUserAndProfile
    /\ UNCHANGED <<authUser, authRole, dbProfileRole, exceptAuth>>

\* fetchUserAndProfile after getSession: setUser, and the profile query or
\* the end of the run
getSessionDone(i) ==
    /\ authPending[i].step = "getSession"
    /\ authUser' = authSession
    /\ IF authSession # NULL
       THEN /\ authPending' = ReplaceAt(authPending, i,
                                        AuthRun("profile", authSession))
            /\ UNCHANGED <<authRole, authLoading>>
       ELSE /\ authPending' = RemoveAt(authPending, i)
            /\ authRole' = NULL
            /\ authLoading' = FALSE
    /\ UNCHANGED <<authSession, dbProfileRole, exceptAuth>>

\* fetchUserAndProfile after the profile query: setRole(data.role) or
\* setRole(null), then setLoading(false)
profileDone(i, outcome) ==
    /\ authPending[i].step = "profile"
    /\ authPending' = RemoveAt(authPending, i)
    /\ authRole' = IF outcome = "ok" THEN dbProfileRole[authPending[i].user]
                   ELSE NULL
    /\ authLoading' = FALSE
    /\ UNCHANGED <<authUser, authSession, dbProfileRole, exceptAuth>>

\* signOut without a failure: the session ends and window.location.href
\* loads the application again, which mounts the provider anew
signOut ==
    /\ authUser # NULL
    /\ authSession' = NULL
    /\ authUser' = NULL
    /\ authRole' = NULL
    /\ authLoading' = TRUE
    /\ authPending' = <<AuthRun("getSession", NULL)>>
    /\ UNCHANGED <<dbProfileRole, exceptAuth>>

\* the mutant of AdminRoute: any signed-in user passes
AdminRouteAnyUser ==
    IF authLoading THEN "loading"
    ELSE IF authUser = NULL THEN "redirect"
    ELSE "children"

\* what AdminRoute returns: <div>Loading...</div>, <Navigate to="/" replace />
\* or its children
AdminRoute ==
    IF authLoading THEN "loading"
    ELSE IF authUser = NULL \/ authRole # "admin" THEN "redirect"
    ELSE "children"

\* the provider after construction: the mount effect has called
\* fetchUserAndProfile
InitAuth ==
    /\ authUser = NULL
    /\ authRole = NULL
    /\ authLoading = TRUE
    /\ authPending = <<AuthRun("getSession", NULL)>>
    /\ authSession \in Users \cup {NULL}
    /\ dbProfileRole \in ProfileTables

IdleAuth ==
    /\ authUser = NULL
    /\ authRole = NULL
    /\ authLoading = TRUE
    /\ authPending = <<>>
    /\ authSession = NULL
    /\ dbProfileRole = [u \in Users |-> NULL]

NextAuth ==
    \/ \E u \in Users \cup {NULL} : onAuthStateChange(u)
    \/ \E i \in 1..Len(authPending) : getSessionDone(i)
    \/ \E i \in 1..Len(authPending), o \in {"ok", "error"} : profileDone(i, o)
    \/ signOut

\* the pages idle, for the specifications of the components
IdlePages == IdleCollections /\ IdleRoadmap /\ IdleAuth

\* Collections with a visitor who may sign in, and beside it a card shown
\* to a visitor without a session
NextGuest ==
    \/ \E u \in ListUsers : colSessionChange(u)
    \/ \E i \in 1..Len(colPending), o \in {"ok", "error"} : colFetchToolsDone(i, o)
    \/ \E i \in 1..Len(colPending), o \in {"ok", "error"} : loadCollectionsDone(i, o)
    \/ \E b \in BOOLEAN : setIsCreateOpen(b)
    \/ \E n \in CollectionNames : setFormDataName(n)
    \/ \E q \in ToolSearchQueries : setToolSearchQuery(q)
    \/ \E t \in IdsOf(colFetchTools) : toggleToolSelection(t)
    \/ handleCreateCollection
    \/ \E i \in 1..Len(colPending), o \in {"ok", "error"} :
           handleCreateCollectionDone(i, o)
    \/ cardHandleWishlistToggle
    \/ cardHandleVote

\* ------------------------------------------------------------------------
\* Specifications, one per component

IdleToolsList ==
    /\ tools = <<>>
    /\ wishlistedTools = <<>>
    /\ votedTools = <<>>
    /\ tlLoading = TRUE
    /\ tlError = NULL
    /\ InitProps
    /\ tlUser = NULL
    /\ tlPending = <<>>
    /\ tlLast = Last("mount", 0, "none", NULL)
    /\ tlTrip = NoTrip
    /\ InitCatalog
    /\ tlVotesLoaded = dbVoteCount

InitSpecFilter == InitFilter /\ IdleReview /\ IdleComparison /\ IdleCard /\ IdlePages
SpecFilter == InitSpecFilter /\ [][NextFilter]_vars

InitSpecToolsList == InitToolsList /\ IdleReview /\ IdleComparison /\ IdleCard /\ IdlePages
SpecToolsList == InitSpecToolsList /\ [][NextToolsList]_vars

\* the cards whose wishlist button is clicked: the tool on the wishlist of
\* u1 and one tool that is on none (the further tools are like the second)
ToggledTools == {t \in CatalogIds : t <= 2}

\* ToolsList with its wishlist buttons alone
NextWishlist ==
    \/ \E i \in 1..Len(tlPending), o \in {"ok", "throw"} : loadDataDone(i, o)
    \/ \E t \in ToggledTools : handleWishlistToggle(t)
    \/ \E i \in 1..Len(tlPending), o \in {"ok", "error", "throw"} :
           handleWishlistToggleDone(i, o)

SpecWishlist == InitSpecToolsList /\ [][NextWishlist]_vars

\* ToolsList under a session that changes: the loads alone
NextSession ==
    \/ \E u \in Users \cup {NULL} : tlSessionChange(u)
    \/ \E i \in 1..Len(tlPending), o \in {"ok", "throw"} : loadDataDone(i, o)

SpecSession == InitSpecToolsList /\ [][NextSession]_vars

InitSpecReview == InitReview /\ IdleToolsList /\ IdleComparison /\ IdleCard /\ IdlePages
SpecReview == InitSpecReview /\ [][NextReview]_vars

\* ReviewSection under one session, of u1 or of nobody
\* the table opens empty or with one review of each of the two users
InitSpecReviewOps == /\ InitSpecReview
                     /\ rsUser \in ListUsers \cup {NULL}
                     /\ Cardinality(dbReviews) # 1
SpecReviewOps == InitSpecReviewOps /\ [][NextReviewOps]_vars

\* ReviewSection under one session, fetching again after every write, over
\* a profiles table that may lack the authors
NextReviewFetch ==
    \/ \E i \in 1..Len(rsPending), o \in {"ok", "error"} : fetchReviewsData(i, o)
    \/ \E i \in 1..Len(rsPending), o \in {"ok", "empty", "error"} :
           fetchReviewsProfiles(i, o)
    \/ \E n \in StarChoices : setRating(n)
    \/ \E c \in Comments : setNewReview(c)
    \/ handleSubmitReview
    \/ \E i \in 1..Len(rsPending), o \in {"ok", "error"} : handleSubmitReviewWritten(i, o)
    \/ rsMount

SpecReviewFetch == InitSpecReviewOps /\ [][NextReviewFetch]_vars

InitSpecComparison == InitComparison /\ IdleToolsList /\ IdleReview /\ IdleCard /\ IdlePages
SpecComparison == InitSpecComparison /\ [][NextComparison]_vars

InitSpecCard == IdleCard /\ IdleToolsList /\ IdleReview /\ IdleComparison /\ IdlePages
SpecCard == InitSpecCard /\ [][NextCard]_vars

InitSpecGuest == InitCollections /\ IdleToolsList /\ IdleReview
                     /\ IdleComparison /\ IdleCard /\ IdleRoadmap
                     /\ IdleAuth
SpecGuest == InitSpecGuest /\ [][NextGuest]_vars

InitSpecCollections == InitCollectionsStored /\ IdleToolsList /\ IdleReview
                           /\ IdleComparison /\ IdleCard /\ IdleRoadmap
                           /\ IdleAuth
SpecCollections == InitSpecCollections /\ [][NextCollections]_vars

\* the three components that load at mount, side by side: ToolsList under a
\* session that changes, Comparison through reloads, ReviewSection through
\* mounts; every call that is awaited settles (weak fairness of each
\* continuation)
InitLoads ==
    /\ InitToolsList
    /\ InitReview /\ rsUser = NULL /\ Cardinality(dbReviews) < 2
    /\ InitComparison /\ searchParams = None
    /\ IdleCard /\ IdlePages

NextLoads ==
    \/ \E u \in ListUsers \cup {NULL} : tlSessionChange(u)
    \/ \E i \in 1..Len(tlPending), o \in {"ok", "throw"} : loadDataDone(i, o)
    \/ \E o \in {"ok", "error"} : cmpFetchToolsDone(o)
    \/ cmpReload
    \/ \E i \in 1..Len(rsPending), o \in {"ok", "error"} : fetchReviewsData(i, o)
    \/ \E i \in 1..Len(rsPending), o \in {"ok", "error"} : fetchReviewsProfiles(i, o)
    \/ rsMount

SpecLoads ==
    /\ InitLoads
    /\ [][NextLoads]_vars
    /\ WF_vars(\E i \in 1..Len(tlPending), o \in {"ok", "throw"} : loadDataDone(i, o))
    /\ WF_vars(\E o \in {"ok", "error"} : cmpFetchToolsDone(o))
    /\ WF_vars(\E i \in 1..Len(rsPending), o \in {"ok", "error"} :
                   fetchReviewsData(i, o))
    /\ WF_vars(\E i \in 1..Len(rsPending), o \in {"ok", "error"} :
                   fetchReviewsProfiles(i, o))

InitSpecAuth == InitAuth /\ IdleToolsList /\ IdleReview /\ IdleComparison
                    /\ IdleCard /\ IdleCollections /\ IdleRoadmap
SpecAuth == InitSpecAuth /\ [][NextAuth]_vars

InitSpecRoadmap == InitRoadmap /\ IdleToolsList /\ IdleReview
                       /\ IdleComparison /\ IdleCard /\ IdleCollections
                       /\ IdleAuth
SpecRoadmap == InitSpecRoadmap /\ [][NextRoadmap]_vars

\* ------------------------------------------------------------------------
\* Properties

ReviewsOf(u) == {r \in dbReviews : r.user_id = u}

\* C1: the reviews store holds at most one review per (tool, author), and a
\* submission by a user who already has a stored review is never an insert.
C1_OneReviewPerAuthor ==
    /\ \A u \in Users : Cardinality(ReviewsOf(u)) <= 1
    /\ \A i \in 1..Len(rsPending) :
           rsPending[i].kind = "insert" => ReviewsOf(rsPending[i].user) = {}

\* C2: every update handleSubmitReview issues targets the stored review of
\* the user signed in when it is issued, and an insert carries that user's id.
C2_UpdateTargetsOwnReview ==
    \A i \in 1..Len(rsPending) :
        /\ rsPending[i].kind = "update" =>
               \E r \in ReviewsOf(rsPending[i].user) : r.id = Get(rsPending[i].id)
        /\ rsPending[i].kind = "insert" => rsPending[i].user \in Users

\* C3: the selection of the Comparison page holds at most four tools.
C3_AtMostFourSelected == Len(selectedTools) <= 4

\* C4: a wishlist or vote write the backend rejects (a failure descriptor or
\* a raised failure) leaves tools, wishlistedTools and votedTools as they
\* were, keeps the list on screen and raises a notice.
C4_RejectedWriteKeepsDisplay ==
    [][ (tlLast'.op \in {"wishlist", "vote"} /\ tlLast'.outcome \in {"error", "throw"})
        => /\ tools' = tools
           /\ wishlistedTools' = wishlistedTools
           /\ votedTools' = votedTools
           /\ tlScreen' = "list"
           /\ tlLast'.notice # NULL ]_vars

\* C5: at most one request per control is outstanding: per tool for the
\* wishlist and the vote control of the list, for the wishlist and the vote
\* control of a card, and for the submit button of the review form.
C5_OneRequestPerControl ==
    /\ \A kind \in {"wishlist", "vote"}, t \in CatalogIds :
           Cardinality({i \in 1..Len(tlPending) :
               tlPending[i].kind = kind /\ tlPending[i].tool = t}) <= 1
    /\ \A kind \in {"wishlist", "vote"} :
           Cardinality({i \in 1..Len(tcPending) : tcPending[i].kind = kind}) <= 1
    /\ Cardinality({i \in 1..Len(rsPending) : rsPending[i].owner = "submit"}) <= 1

\* C6: the local vote count of a tool has grown by exactly one over what was
\* loaded when the tool is in votedTools, and not at all otherwise.
C6_VoteCountsOnce ==
    \A k \in 1..Len(tools) :
        OrZero(tools[k].votes) - OrZero(tlVotesLoaded[tools[k].id])
            = IF InList(votedTools, tools[k].id) THEN 1 ELSE 0

\* the predicates of the catalog view, as the specification words them
Normalised(s) == ReplaceWhitespaceRuns(ToLowerCase(s))

IsSubstringIgnoringCase(q, s) ==
    \E from \in 1..(Len(s) + 1), to \in 0..Len(s) :
        ToLowerCase(SubSeq(s, from, to)) = ToLowerCase(q)

SearchMatches(tool) ==
    \/ IsSubstringIgnoringCase(searchQuery, tool.name)
    \/ IsSubstringIgnoringCase(searchQuery, tool.description)
    \/ \E tags \in tool.tags : \E k \in 1..Len(tags) :
           IsSubstringIgnoringCase(searchQuery, tags[k])

FieldMatches(field, value) ==
    value = AllFilter \/ \E stored \in field : Normalised(stored) = Normalised(value)

\* C7: the displayed list holds exactly the loaded tools that satisfy the
\* search, the category and the type predicate, each once.
C7_ExactlyTheMatchingTools ==
    /\ IdsOf(sortedTools) =
           {tools[k].id : k \in {j \in 1..Len(tools) :
               /\ SearchMatches(tools[j])
               /\ FieldMatches(tools[j].category, selectedCategory)
               /\ FieldMatches(tools[j].type, selectedType)}}
    /\ Len(sortedTools) = Cardinality(IdsOf(sortedTools))

\* C8: a tool passes the category (type) filter exactly when its stored
\* field and the filter value are equal after both are normalised, and the
\* value "all" lets every tool pass.
C8_FilterComparesNormalisedValues ==
    /\ \A k \in 1..Len(afterSearch) :
           afterSearch[k].id \in IdsOf(afterCategory)
               <=> FieldMatches(afterSearch[k].category, selectedCategory)
    /\ \A k \in 1..Len(afterCategory) :
           afterCategory[k].id \in IdsOf(filteredTools)
               <=> FieldMatches(afterCategory[k].type, selectedType)

Occurrences(list, x) == Cardinality({k \in 1..Len(list) : list[k] = x})

IsPermutation(a, b) ==
    /\ Len(a) = Len(b)
    /\ \A k \in 1..Len(a) : Occurrences(a, a[k]) = Occurrences(b, a[k])

TrustScore(tool) == IF tool.trust_score = None THEN 0 ELSE Get(tool.trust_score)
VoteCount(tool) == IF tool.votes = None THEN 0 ELSE Get(tool.votes)
LastUpdated(tool) == IF tool.last_updated = None THEN 0 ELSE Get(tool.last_updated)

\* C9: the displayed list is a permutation of the filtered list, in
\* non-increasing order of the sort key (missing counting as 0, or as the
\* epoch); under an unknown key it is the filtered list itself.
C9_SortedByKey ==
    /\ IsPermutation(sortedTools, filteredTools)
    /\ \A i, j \in 1..Len(sortedTools) : i < j =>
           /\ sortBy = "trust-score"
                  => TrustScore(sortedTools[i]) >= TrustScore(sortedTools[j])
           /\ sortBy = "popularity"
                  => VoteCount(sortedTools[i]) >= VoteCount(sortedTools[j])
           /\ sortBy = "recent"
                  => LastUpdated(sortedTools[i]) >= LastUpdated(sortedTools[j])
    /\ sortBy \notin {"name", "trust-score", "popularity", "recent"}
           => sortedTools = filteredTools

\* a sort by trust score that moved a tool without a score ahead of one with
\* a negative score
C9_Witness ==
    /\ sortBy = "trust-score"
    /\ sortedTools # filteredTools
    /\ \E i, j \in 1..Len(sortedTools) :
           /\ i < j
           /\ sortedTools[i].trust_score = None
           /\ TrustScore(sortedTools[j]) < 0

PositionIn(list, x) == CHOOSE k \in 1..Len(list) : list[k] = x

\* C10: the sort by trust score is stable (tools of equal score keep the
\* order of the input) and idempotent (sorting the result again changes
\* nothing).
C10_TrustScoreSortStable ==
    sortBy = "trust-score" =>
        /\ \A i, j \in 1..Len(sortedTools) :
               (i < j /\ TrustScore(sortedTools[i]) = TrustScore(sortedTools[j]))
               => PositionIn(filteredTools, sortedTools[i])
                      < PositionIn(filteredTools, sortedTools[j])
        /\ ArraySort(sortedTools, sortBy) = sortedTools

\* a sort by trust score that reordered the list and left two tools of equal
\* score, one of them without a stored score, next to each other
C10_Witness ==
    /\ sortBy = "trust-score"
    /\ sortedTools # filteredTools
    /\ \E i \in 1..(Len(sortedTools) - 1) :
           /\ TrustScore(sortedTools[i]) = TrustScore(sortedTools[i + 1])
           /\ sortedTools[i].trust_score # sortedTools[i + 1].trust_score

\* C11: two successive wishlist toggles of a tool on no wishlist, each
\* accepted before the next click, issue an insert and then a delete and
\* bring the membership relation and wishlistedTools back to what they were;
\* every toggle passes the membership displayed at its click.
C11_WishlistRoundTrip ==
    /\ tlLast.op = "wishlistClick" =>
           tlPending[Len(tlPending)].isWishlisted
               = InList(wishlistedTools, tlLast.tool)
    /\ tlTrip.stage = 1 => ~tlPending[1].isWishlisted
    /\ tlTrip.stage = 2 =>
           /\ dbWishlist = tlTrip.rows \cup {<<tlUser, tlTrip.tool>>}
           /\ wishlistedTools = Append(tlTrip.list, tlTrip.tool)
    /\ tlTrip.stage = 3 => tlPending[1].isWishlisted
    /\ tlTrip.stage = 4 =>
           /\ dbWishlist = tlTrip.rows
           /\ wishlistedTools = tlTrip.list
           /\ <<tlUser, tlTrip.tool>> \notin dbWishlist
           /\ ~InList(wishlistedTools, tlTrip.tool)

\* the second toggle of a round trip has been accepted, of a user whose
\* wishlist held another tool all along
C11_Witness ==
    /\ tlTrip.stage = 4
    /\ tlLast = Last("wishlist", tlTrip.tool, "ok", "Removed from wishlist")
    /\ wishlistedTools # <<>>

\* C13: handleSubmitReview issues a write only with a user, a non-zero rating
\* and a comment that is non-empty after trimming; a refusal issues no call,
\* leaves isSubmitting false and the list and the form as they were; the
\* comment of the write, and of the row it stores, is the trimmed text.
C13_SubmitGuardsAndTrim ==
    [][ /\ (rsLast'.op = "submit" /\ rsLast'.outcome = "refused") =>
               /\ rsUser = NULL \/ rating = 0 \/ Trim(newReview) = <<>>
               /\ ~isSubmitting'
               /\ UNCHANGED <<rsPending, isSubmitting, reviews, newReview, rating,
                              editingReviewId, currentUserReview, dbReviews>>
        /\ rsLast'.op = "submitClick" =>
               /\ rsUser # NULL /\ rating # 0 /\ Trim(newReview) # <<>>
               /\ Len(rsPending') = Len(rsPending) + 1
               /\ SubSeq(rsPending', 1, Len(rsPending)) = rsPending
               /\ rsPending'[Len(rsPending')].kind \in {"update", "insert"}
               /\ rsPending'[Len(rsPending')].comment = Trim(newReview)
               /\ rsPending'[Len(rsPending')].rating = rating
               /\ rsPending'[Len(rsPending')].user = rsUser
        /\ CountKind(rsPending', {"update", "insert"})
               > CountKind(rsPending, {"update", "insert"}) =>
               rsLast'.op = "submitClick"
        /\ \A r \in dbReviews' \ dbReviews :
               /\ r.rating # 0
               /\ r.comment # <<>>
               /\ r.comment = Trim(r.comment)
               /\ \E i \in 1..Len(rsPending) :
                      /\ rsPending[i].kind \in {"update", "insert"}
                      /\ rsPending[i].comment = r.comment
                      /\ rsPending[i].rating = r.rating
      ]_vars

\* a submission with a rating and a comment of white space only was refused
C13_Witness ==
    /\ rsLast = Last("submit", 0, "refused", "Missing information")
    /\ rating # 0
    /\ newReview # <<>>
    /\ rsUser # NULL

\* C14: a successful insert, update or delete is followed, within its
\* handler, by a reload of the list; a reload issues at most one profile
\* lookup, keyed by the distinct authors of the fetched reviews, and none
\* when the tool has no review.
C14_ReloadAfterWrite ==
    [][ /\ (rsLast'.op \in {"submit", "delete"} /\ rsLast'.outcome = "ok") =>
               /\ Len(rsPending') = Len(rsPending)
               /\ rsLoading'
               /\ \E i \in 1..Len(rsPending) :
                      /\ rsPending[i].kind \in {"update", "insert", "delete"}
                      /\ rsPending'[i] = fetchReviews(rsPending[i].user,
                                                      rsPending[i].owner)
                      /\ \A j \in 1..Len(rsPending) :
                             j # i => rsPending'[j] = rsPending[j]
               /\ rsLast'.op = "submit" => isSubmitting'
        /\ CountKind(rsPending', {"profiles"}) > CountKind(rsPending, {"profiles"}) =>
               /\ CountKind(rsPending', {"profiles"})
                      = CountKind(rsPending, {"profiles"}) + 1
               /\ CountKind(rsPending', {"reviews"})
                      = CountKind(rsPending, {"reviews"}) - 1
               /\ dbReviews # {}
        /\ \A i \in 1..Len(rsPending') :
               rsPending'[i].kind = "profiles" =>
                   LET call == rsPending'[i] IN
                   /\ call.data # <<>>
                   /\ \A j, k \in 1..Len(call.keys) :
                          call.keys[j] = call.keys[k] => j = k
                   /\ {call.keys[j] : j \in 1..Len(call.keys)}
                          = {call.data[j].user_id : j \in 1..Len(call.data)}
      ]_vars

\* the reload of a submission looks up the one author of two fetched reviews
C14_Witness ==
    \E i \in 1..Len(rsPending) :
        /\ rsPending[i].kind = "profiles"
        /\ rsPending[i].owner = "submit"
        /\ Len(rsPending[i].keys) < Len(rsPending[i].data)

\* C15: handleDeleteReview issues a delete only with a user who is the
\* author of the displayed review with the given id; for any other id no
\* delete is issued and the list is unchanged.
C15_DeleteOnlyOwnReview ==
    [][ /\ rsLast'.op = "deleteClick" =>
               /\ rsUser # NULL
               /\ \E k \in 1..Len(reviews) :
                      /\ reviews[k].id = rsLast'.tool
                      /\ reviews[k].user_id = rsUser
               /\ rsPending' = Append(rsPending,
                      RsCall("delete", rsUser, "delete", Some(rsLast'.tool), 0,
                             <<>>, <<>>, <<>>))
        /\ CountKind(rsPending', {"delete"}) > CountKind(rsPending, {"delete"}) =>
               rsLast'.op = "deleteClick"
        /\ (rsLast'.op = "delete" /\ rsLast'.outcome = "refused") =>
               /\ \/ rsUser = NULL
                  \/ ~\E k \in 1..Len(reviews) :
                         /\ reviews[k].id = rsLast'.tool
                         /\ reviews[k].user_id = rsUser
               /\ UNCHANGED <<rsPending, reviews, dbReviews, rsLoading>>
      ]_vars

\* the delete of a displayed review of another author was refused
C15_Witness ==
    /\ rsLast.op = "delete"
    /\ rsLast.outcome = "refused"
    /\ rsUser # NULL
    /\ \E k \in 1..Len(reviews) :
           /\ reviews[k].id = rsLast.tool
           /\ reviews[k].user_id # rsUser

\* the titles of the toasts that ask for a session
LoginNotices == {"Login required", "Authentication required"}

\* the segments in which a handler issues its backend call
ClickOps == {"wishlistClick", "voteClick", "submitClick", "createClick"}

\* the handlers that open with if (!user)
GuardedOps == {"wishlist", "vote", "submit", "create"}

IsJsonText(text) ==
    \/ Len(text) = 1 /\ text[1].t = "object"
    \/ /\ Len(text) >= 2
       /\ text[1].t = "["
       /\ text[Len(text)].t = "]"
       /\ LET inner == SubSeq(text, 2, Len(text) - 1) IN
          \/ inner = <<>>
          \/ /\ Len(inner) % 2 = 1
             /\ \A k \in 1..Len(inner) :
                    inner[k].t = IF k % 2 = 1 THEN "object" ELSE ","

\* the object literals of a text, in its order
StagesOf(text) ==
    LET objects == SelectSeq(text, LAMBDA token : token.t = "object")
    IN  [k \in 1..Len(objects) |-> objects[k].v]

\* C16: a completion text that is not JSON leaves the roadmap as it was
\* before the call; no stage of it is rendered.
C16_InvalidJsonKeepsRoadmap ==
    [][ (rmLast'.op = "generate" /\ rmLast'.raw # <<>> /\ ~IsJsonText(rmLast'.raw)) =>
            /\ roadmap' = roadmap
            /\ rmLast'.outcome = "invalidJson"
      ]_vars

\* a truncated array arrived while an earlier roadmap was displayed
C16_Witness ==
    /\ rmLast.op = "generate"
    /\ rmLast.outcome = "invalidJson"
    /\ rmLast.raw = Truncated
    /\ Len(roadmap) = 4

\* C17: a non-OK status, an empty payload or a text that is not JSON is
\* reported to the user by a notice.
C17_FailureNoticed ==
    rmLast.outcome \in {"functionError", "invalidResponse", "invalidJson"} =>
        rmLast.notice # NULL

\* C18: every assembled stage lists the tool names of the response in its
\* order, each with the description the table holds under that name, or with
\* the fallback description when the table holds no such name.
C18_ToolsResolved ==
    rmLast.outcome = "ok" =>
        LET stages == StagesOf(rmLast.raw) IN
        /\ Len(roadmap) = Len(stages)
        /\ \A k \in 1..Len(roadmap) :
               /\ Len(roadmap[k].tools) = Len(Get(stages[k].tools))
               /\ \A j \in 1..Len(roadmap[k].tools) :
                      /\ roadmap[k].tools[j].name = Get(stages[k].tools)[j]
                      /\ roadmap[k].tools[j].description =
                             IF roadmap[k].tools[j].name \in DOMAIN rmLast.table
                             THEN rmLast.table[roadmap[k].tools[j].name]
                             ELSE "Learn this tool as part of this stage"

\* C19: the roadmap is replaced only by a response that is an array of
\* exactly four stages, each with its index, title, skills, tools and
\* certifications.
C19_OnlyFourStagesAccepted ==
    rmLast.outcome = "ok" =>
        /\ IsJsonText(rmLast.raw)
        /\ rmLast.raw[1].t = "["
        /\ Len(StagesOf(rmLast.raw)) = 4
        /\ \A k \in 1..Len(StagesOf(rmLast.raw)) :
               LET stage == StagesOf(rmLast.raw)[k] IN
               /\ stage.stage # None
               /\ stage.title # None
               /\ stage.skills # None
               /\ stage.tools # None
               /\ stage.certifications # None

\* C20: with four tools selected, handleAddTool of any further tool leaves
\* the selection, the "tools" parameter and the open state of the add dialog
\* as they were.
C20_FifthToolIsNoOp ==
    [][ (cmpLast'.op = "addTool" /\ Len(selectedTools) >= MaxSelected) =>
            /\ UNCHANGED <<selectedTools, searchParams, isAddDialogOpen>>
            /\ cmpLast'.outcome = "refused"
      ]_vars

\* handleAddTool was called with a tool outside a selection of four, with
\* the add dialog open
C20_Witness ==
    /\ cmpLast.op = "addTool"
    /\ cmpLast.outcome = "refused"
    /\ Len(selectedTools) = MaxSelected
    /\ ~\E k \in 1..Len(selectedTools) : selectedTools[k].id = cmpLast.tool
    /\ searchParams = updateUrl(selectedTools)
    /\ isAddDialogOpen

\* the identifiers the "tools" parameter lists, and those of a tool list
ParamIds(params) ==
    IF params = None THEN {}
    ELSE LET ids == SplitComma(Get(params)) IN {ids[k] : k \in 1..Len(ids)}

ToolIdStrings(list) == {IdString(list[k].id) : k \in 1..Len(list)}

\* C21: with the tool list loaded, a handleAddTool that passes its guard and
\* every handleRemoveTool leave, after the synchronisation that follows, the
\* identifiers of the "tools" parameter equal to those of the selected
\* tools; removing a tool takes its identifier out of both and keeps every
\* other selected tool in both, and removing the last one removes the
\* parameter.
C21_UrlMirrorsSelection ==
    [][ /\ (cmpLast'.op = "addTool" /\ cmpLast'.outcome = "ok") =>
              /\ ParamIds(searchParams') = ToolIdStrings(selectedTools')
              /\ ToolIdStrings(selectedTools') =
                     ToolIdStrings(selectedTools) \cup {IdString(cmpLast'.tool)}
        /\ cmpLast'.op = "removeTool" =>
              /\ ParamIds(searchParams') = ToolIdStrings(selectedTools')
              /\ ToolIdStrings(selectedTools') =
                     ToolIdStrings(selectedTools) \ {IdString(cmpLast'.tool)}
              /\ (selectedTools' = <<>>) = (searchParams' = None)
      ]_vars

\* handleRemoveTool took one of two selected tools out; the other is still
\* selected and still named by the URL
C21_Witness ==
    /\ cmpLast.op = "removeTool"
    /\ Len(selectedTools) = 1
    /\ selectedTools[1].id # cmpLast.tool
    /\ searchParams = Some(IdString(selectedTools[1].id))

\* C22: a page opened with a "tools" parameter (one an earlier selection
\* left, or any comma-joined identifier list) has, once its tool list has
\* loaded, exactly the loaded tools the parameter names selected;
\* identifiers that name no loaded tool select nothing.
C22_SelectionSurvivesReload ==
    [][ (cmpLast'.op = "fetchTools" /\ cmpLast'.outcome = "ok") =>
            /\ ToolIdStrings(selectedTools') =
                   ParamIds(searchParams) \cap ToolIdStrings(allTools')
            /\ \A k \in 1..Len(selectedTools') :
                   InList(allTools', selectedTools'[k])
            /\ searchParams' = searchParams
      ]_vars

\* the list has loaded on a page whose URL names two loaded tools in the
\* order a selection left them (not the order of the table), and the page
\* shows both
C22_Witness ==
    /\ cmpLast.op = "fetchTools"
    /\ cmpLast.outcome = "ok"
    /\ searchParams = Some(JoinComma(<<IdString(2), IdString(1)>>))
    /\ Len(selectedTools) = 2

\* C23: no insert and no update of a collection is issued with a name that
\* is empty after trimming; the handler that is clicked over such a form
\* starts no call and leaves the list of collections as it was.
C23_NoBlankNameIssued ==
    [][ /\ colLast'.op \in {"createClick", "editClick"} =>
              /\ Trim(formData.name) # <<>>
              /\ Trim(colPending'[Len(colPending')].name) # <<>>
        /\ (colLast'.op \in {"create", "edit"} /\ colLast'.outcome = "refused") =>
              UNCHANGED <<colPending, collections, dbCollections>>
      ]_vars

\* C24: every update or delete the page issues is issued with a user signed
\* in and targets a collection that user owns, and every collection the
\* page lists (with its Edit and Delete items) belongs to the signed-in user.
C24_WritesTargetOwnCollections ==
    /\ \A i \in 1..Len(colPending) :
           colPending[i].kind \in {"update", "delete"} =>
               /\ colPending[i].user # NULL
               /\ \A r \in dbCollections :
                      r.id = colPending[i].id => r.user_id = colPending[i].user
    /\ \A k \in 1..Len(collections) : collections[k].user_id = colUser

\* C25: when no loadData call is in flight and none has failed, the
\* wishlistedTools of the list are the wishlist of the current user, and
\* empty without a user, in whatever order the calls started for different
\* identities completed.
C25_WishlistOfCurrentUser ==
    (CountKind(tlPending, {"load"}) = 0 /\ tlError = NULL) =>
        wishlistedTools = IF tlUser # NULL THEN fetchWishlistedTools(tlUser)
                          ELSE <<>>

\* C26: a load of ToolsList (loadData), Comparison (fetchTools) or
\* ReviewSection (fetchReviews) whose calls settle sets its loading flag
\* back to false, whether it got rows, nothing or a failure: no flag is true
\* once the last call of the loads of its component has returned, and a
\* flag that is true becomes false.
C26_LoadingFlagCleared ==
    /\ [](CountKind(tlPending, {"load"}) = 0 => ~tlLoading)
    /\ [](cmpLast.op = "fetchTools" => ~cmpLoading)
    /\ [](CountKind(rsPending, {"reviews", "profiles"}) = 0 => ~rsLoading)
    /\ (tlLoading ~> ~tlLoading)
    /\ (cmpLoading ~> ~cmpLoading)
    /\ (rsLoading ~> ~rsLoading)

\* a load of each component has failed and every loading flag is false
C26_Witness ==
    /\ tlLast.op = "loadData" /\ tlLast.outcome = "throw" /\ ~tlLoading
    /\ cmpLast.op = "fetchTools" /\ cmpLast.outcome = "error" /\ ~cmpLoading
    /\ rsLast.op = "fetchReviews" /\ rsLast.outcome = "error" /\ ~rsLoading
    /\ tlPending = <<>> /\ rsPending = <<>>

\* C27: once every run of fetchUserAndProfile has completed, the role in
\* state is null or the profile role of the user in state; it is null
\* whenever the user is null, and never the role read for another user.
C27_RoleOfCurrentUser ==
    authPending = <<>> =>
        /\ authUser = NULL => authRole = NULL
        /\ authUser # NULL => authRole \in {NULL, dbProfileRole[authUser]}

\* C28: AdminRoute renders its children exactly when the auth state is not
\* loading, a user is present and the role is "admin"; while loading it
\* renders neither children nor redirect; in every other case it redirects.
C28_AdminRouteGate ==
    /\ (AdminRoute = "children") =
           (~authLoading /\ authUser # NULL /\ authRole = "admin")
    /\ authLoading => AdminRoute = "loading"
    /\ (~authLoading /\ (authUser = NULL \/ authRole # "admin")) =>
           AdminRoute = "redirect"
    /\ AdminRoute \in {"loading", "redirect", "children"}

\* a signed-in user whose stored role differs from "admin" only in case is
\* redirected
C28_Witness ==
    /\ ~authLoading
    /\ authUser # NULL
    /\ authRole = "ADMIN"
    /\ AdminRoute = "redirect"

\* C29: wishlistedTools of the list holds no tool identifier twice, after
\* any sequence of wishlist toggles, toggles of one tool that overlap
\* included.
C29_NoDuplicateWishlisted ==
    \A i, j \in 1..Len(wishlistedTools) :
        i # j => wishlistedTools[i] # wishlistedTools[j]

Anonymous == <<"A","n","o","n","y","m","o","u","s">>

\* the display name a merged review may carry: the full name of its
\* author's profile if that is not empty, else "Anonymous"; "Anonymous" also
\* when the lookup returned no such profile or failed
NameFits(review) ==
    /\ review.user_name # <<>>
    /\ review.user_name # Anonymous =>
           /\ Truthy(FullName(review.user_id))
           /\ review.user_name = Get(FullName(review.user_id))

====
